---- MODULE Spec2Model ----
(***************************************************************************)
(* Model of the Golix cryptographic core (golix/cipher.py, golix/utils.py): *)
(* suite-1 identities minting, unpacking and receiving Golix objects.       *)
(*                                                                         *)
(* Cryptographic primitives of the external libraries are modelled          *)
(* symbolically (a signature names its key and its digest, an OAEP          *)
(* ciphertext names its key and its plaintext, a hash names its preimage);  *)
(* AES-CTR is computed: keystream block XOR data.  The object schemas       *)
(* (golix/_getlow.py) are not part of the sources and are modelled from     *)
(* the specification.                                                       *)
(***************************************************************************)
EXTENDS Integers, Sequences, FiniteSets, TLC

VARIABLES party, obj, packed, call, sealed, tampered, result

vars == <<party, obj, packed, call, sealed, tampered, result>>

----------------------------------------------------------------------------
(* Bounds of the model *)

\* symmetric keys are named 1..NumKeys
NumKeys == 2
\* the integer value of a Secret's 16-byte seed ranges over 0..MaxSeed
MaxSeed == 1
\* plaintexts have at most MaxLen bytes
MaxLen == 2
\* ack / nak status codes range over 0..MaxStatus
MaxStatus == 1

\* receive_request calls made on one unpacked request
MaxReceives == 2

Ids == {"A", "B"}

----------------------------------------------------------------------------
(* utils.py: addresses and Guids *)

\* an attribute that is not set (Python None / missing attribute)
NoAttr == [unset |-> TRUE]

_dummy_address == [dummy |-> "hash"]

SHA512(data) == [sha512 |-> data]

AddressAlgo0_create(data) == _dummy_address

AddressAlgo1_create(data) == SHA512(data)

ADDRESS_ALGOS == {0, 1}

hash_lookup_create(algo, data) ==
    IF algo = 0 THEN AddressAlgo0_create(data) ELSE AddressAlgo1_create(data)

\* Guid.__init__ with the address setter: algo 0 never stores the address
Guid(algo, address) ==
    [algo |-> algo, addr |-> IF algo = 0 THEN NoAttr ELSE address]

\* an address property that returns what is stored, for every algo
GuidAddress_stored(g) == g.addr

\* Guid.address property
GuidAddress(g) == IF g.algo = 0 THEN _dummy_address ELSE g.addr

\* Guid.__eq__
GuidEq(g, h) == g.algo = h.algo /\ GuidAddress(g) = GuidAddress(h)

----------------------------------------------------------------------------
(* utils.py: Secret *)

Bytes == {0, 1}

SecretKeys == 1..NumKeys

Seeds == 0..MaxSeed

Secret(cipher, key, seed) ==
    [version |-> 2, cipher |-> cipher, key |-> key, seed |-> seed]

\* the Secrets of suite 1 (FirstParty1.new_secret)
Secrets1 == {Secret(1, k, s) : k \in SecretKeys, s \in Seeds}

----------------------------------------------------------------------------
(* Object schemas: pack / unpack of the Golix objects *)

SymKinds == {"GEOC", "GOBS", "GOBD", "GDXX"}

NoObj == [kind |-> "none"]

NoBytes == [magic |-> "none"]

\* the packed bytes of an object: header, role guid, body fields, trailer
PackedOf(o) ==
    [magic |-> o.kind, cipher |-> o.cipher, address_algo |-> o.address_algo,
     who |-> o.who, data |-> o.data, signature |-> o.signature]

\* the part of the packed bytes the address is computed over
UnsignedBody(p) ==
    [magic |-> p.magic, cipher |-> p.cipher, address_algo |-> p.address_algo,
     who |-> p.who, data |-> p.data]

\* <obj>.pack(cipher, address_algo): fixes the header and computes the guid
pack(o, cipher, address_algo) ==
    LET o1 == [o EXCEPT !.cipher = cipher, !.address_algo = address_algo]
    IN  [o1 EXCEPT !.guid =
            Guid(address_algo,
                 hash_lookup_create(address_algo, UnsignedBody(PackedOf(o1))))]

\* <obj>.pack_signature(signature): attaches the trailer
pack_signature(o, signature) == [o EXCEPT !.signature = signature]

\* a fresh, unpacked object of the given kind
NewObject(kind, who, data) ==
    [kind |-> kind, cipher |-> 255, address_algo |-> 255, who |-> who,
     data |-> data, guid |-> NoAttr, signature |-> NoAttr,
     plaintext |-> NoAttr, author |-> NoAttr]

\* <KIND>.unpack(packed): the guid is recomputed from the unsigned body
unpack(p) ==
    [kind |-> p.magic, cipher |-> p.cipher, address_algo |-> p.address_algo,
     who |-> p.who, data |-> p.data,
     guid |-> Guid(p.address_algo,
                   hash_lookup_create(p.address_algo, UnsignedBody(p))),
     signature |-> p.signature, plaintext |-> NoAttr, author |-> NoAttr]

----------------------------------------------------------------------------
(* Outcomes of an operation: a return value or a raised exception *)

Ok(v) == [status |-> "ok", msg |-> "", value |-> v]

Raise(type, msg) == [status |-> type, msg |-> msg, value |-> NoAttr]

----------------------------------------------------------------------------
(* External primitives (PyCryptodome, donna25519), symbolically *)

\* RSA.generate(4096): the key pair named n
RSAGenerate(n) == [n |-> n, private |-> TRUE]

\* RsaKey.publickey()
publickey(k) == [n |-> k.n, private |-> FALSE]

\* ECDHPrivate() and ECDHPrivate.get_public()
ECDHPrivate(n) == [scalar |-> n]

get_public(k) == [point |-> k.scalar]

\* PrivateKey.do_exchange(public): the Diffie-Hellman value of the two keys
do_exchange(priv, pub) == [x25519 |-> {priv.scalar, pub.point}]

\* PSS.new(key, ...).sign(h)
PSSSign(key, h) == [pss |-> key.n, h |-> h]

\* PSS.new(key, ...).verify(h, signature): TRUE when it does not raise
PSSVerify(key, h, signature) == signature = [pss |-> key.n, h |-> h]

\* OAEP.new(key).encrypt(data)
OAEPEncrypt(key, data) == [oaep |-> key.n, m |-> data]

\* OAEP.new(key).decrypt(data): raises ValueError on a failed integrity check
OAEPDecrypt(key, data) ==
    IF key.private /\ data.oaep = key.n
    THEN Ok(data.m)
    ELSE Raise("ValueError", "Incorrect decryption.")

\* HKDF(master, key_len, salt, hashmod)
HKDF(master, salt) == [hkdf |-> master, salt |-> salt]

\* HMAC.new(key, msg, digestmod).digest()
HMAC(key, msg) == [hmac |-> key, msg |-> msg]

\* bytes([a ^ b for a, b in zip(x, y)]) on two addresses: XOR in the free
\* Boolean group, equal operands cancel
XorBytes(x, y) == ({x} \cup {y}) \ ({x} \cap {y})

\* one block of AES keystream for a key and a counter value
AESBlock(key, ctr) == ((key * ctr) + (ctr \div 2) + key) % 2

\* AES.new(key, MODE_CTR, counter).encrypt / .decrypt: data XOR keystream,
\* the counter starting at ctr_start and stepping once per block
RECURSIVE AESCtr(_, _, _)
AESCtr(key, ctr, data) ==
    IF data = <<>> THEN <<>>
    ELSE <<(Head(data) + AESBlock(key, ctr)) % 2>>
         \o AESCtr(key, ctr + 1, Tail(data))

----------------------------------------------------------------------------
(* cipher.py: SecondParty1 *)

\* int.to_bytes(n, length=512, byteorder='big')
int_to_bytes(n) == [bytes |-> n]

\* SecondParty1._pack_keys
_pack_keys(keys) ==
    [signature |-> int_to_bytes(keys.signature.n),
     encryption |-> int_to_bytes(keys.encryption.n),
     exchange |-> [bytes |-> keys.exchange.point]]

\* _SecondPartyBase.from_keys for SecondParty1
from_keys(keys, address_algo) ==
    LET gidc == pack(NewObject("GIDC", NoAttr, _pack_keys(keys)),
                     1, address_algo)
    IN  [cls |-> "SecondParty1", ciphersuite |-> 1, keys |-> keys,
         guid |-> gidc.guid, packed |-> PackedOf(gidc)]

----------------------------------------------------------------------------
(* cipher.py: FirstParty1 construction *)

\* FirstParty1._generate_keys: fresh keys, named after the identity
_generate_keys(id) ==
    [signature |-> RSAGenerate(<<id, "sig">>),
     encryption |-> RSAGenerate(<<id, "enc">>),
     exchange |-> ECDHPrivate(<<id, "exch">>)]

\* FirstParty1._generate_second_party
_generate_second_party(keys, address_algo) ==
    from_keys([signature |-> publickey(keys.signature),
               encryption |-> publickey(keys.encryption),
               exchange |-> get_public(keys.exchange)], address_algo)

\* _FirstPartyBase.__init__ without keys and guid: generate a new identity
FirstParty1(id, address_algo) ==
    LET keys == _generate_keys(id)
        sp == _generate_second_party(keys, address_algo)
    IN  [cls |-> "FirstParty1", ciphersuite |-> 1,
         address_algo |-> address_algo, keys |-> keys, guid |-> sp.guid,
         second_party |-> sp]

\* _FirstPartyBase._typecheck_2ndparty: TRUE, or raises TypeError
_typecheck_2ndparty(fp, x) == x.cls = "SecondParty1"

\* a _typecheck_secret that accepts a Secret of any suite
_typecheck_secret_any(fp, secret) == secret.cipher \in {0, 1}

\* _IdentityBase._typecheck_secret
_typecheck_secret(fp, secret) == secret.cipher = fp.ciphersuite

----------------------------------------------------------------------------
(* cipher.py: FirstParty1 primitives *)

\* an _encrypt whose counter never steps: every block is XORed with the
\* first block of keystream
_encrypt_fixed_counter(secret, data) ==
    [i \in 1..Len(data) |->
        (data[i] + AESBlock(secret.key, secret.seed)) % 2]

\* FirstParty1._encrypt
_encrypt(secret, data) == AESCtr(secret.key, secret.seed, data)

\* a _decrypt whose counter starts one block late
_decrypt_late_counter(secret, data) ==
    AESCtr(secret.key, secret.seed + 1, data)

\* FirstParty1._decrypt
_decrypt(secret, data) == AESCtr(secret.key, secret.seed, data)

\* FirstParty1._sign
_sign(fp, data) == PSSSign(fp.keys.signature, data)

\* a _verify that accepts a signature of the data under any key
_verify_any_key(public, signature, data) == signature.h = data

\* a _verify that accepts any signature of the author, whatever was signed
_verify_any_data(public, signature, data) ==
    signature.pss = public.keys.signature.n

\* FirstParty1._verify (after the type check): TRUE, or raises SecurityError
_verify(public, signature, data) ==
    PSSVerify(public.keys.signature, data, signature)

\* FirstParty1._encrypt_asym
_encrypt_asym(public, data) == OAEPEncrypt(public.keys.encryption, data)

\* FirstParty1._decrypt_asym
_decrypt_asym(fp, data) == OAEPDecrypt(fp.keys.encryption, data)

\* a _derive_shared that salts with its own address only
_derive_shared_own_salt(fp, partner) ==
    HKDF(do_exchange(fp.keys.exchange, partner.keys.exchange),
         {GuidAddress(fp.guid)})

\* FirstParty1._derive_shared
_derive_shared(fp, partner) ==
    LET ecdh == do_exchange(fp.keys.exchange, partner.keys.exchange)
        salt == XorBytes(GuidAddress(fp.guid), GuidAddress(partner.guid))
    IN  HKDF(ecdh, salt)

\* FirstParty1._mac
_mac(key, data) == HMAC(key, data)

\* a _verify_mac that never raises
_verify_mac_accepts_all(key, mac, data) == TRUE

\* FirstParty1._verify_mac: TRUE, or raises SecurityError
_verify_mac(key, mac, data) == mac = HMAC(key, data)

----------------------------------------------------------------------------
(* cipher.py: minting signed objects *)

\* a make_container that signs the packed object instead of its address
make_container_signs_packed(fp, secret, plaintext) ==
    IF ~_typecheck_secret(fp, secret)
    THEN Raise("TypeError", "Secret must be a properly-formatted Secret")
    ELSE LET geoc == NewObject("GEOC", fp.guid,
                               [payload |-> _encrypt(secret, plaintext)])
             geoc1 == pack(geoc, fp.ciphersuite, fp.address_algo)
             signature == _sign(fp, SHA512(PackedOf(geoc1)))
         IN  Ok(pack_signature(geoc1, signature))

\* _FirstPartyBase.make_container
make_container(fp, secret, plaintext) ==
    IF ~_typecheck_secret(fp, secret)
    THEN Raise("TypeError", "Secret must be a properly-formatted Secret")
    ELSE LET geoc == NewObject("GEOC", fp.guid,
                               [payload |-> _encrypt(secret, plaintext)])
             geoc1 == pack(geoc, fp.ciphersuite, fp.address_algo)
             signature == _sign(fp, GuidAddress(geoc1.guid))
         IN  Ok(pack_signature(geoc1, signature))

\* _FirstPartyBase.make_bind_static
make_bind_static(fp, target) ==
    LET gobs == NewObject("GOBS", fp.guid, [target |-> target])
        gobs1 == pack(gobs, fp.ciphersuite, fp.address_algo)
        signature == _sign(fp, GuidAddress(gobs1.guid))
    IN  Ok(pack_signature(gobs1, signature))

\* _FirstPartyBase.make_bind_dynamic
make_bind_dynamic(fp, target, guid_dynamic, history) ==
    LET gobd == NewObject("GOBD", fp.guid,
                          [targets |-> target, guid_dynamic |-> guid_dynamic,
                           history |-> history])
        gobd1 == pack(gobd, fp.ciphersuite, fp.address_algo)
        signature == _sign(fp, GuidAddress(gobd1.guid))
    IN  Ok(pack_signature(gobd1, signature))

\* _FirstPartyBase.make_debind
make_debind(fp, target) ==
    LET gdxx == NewObject("GDXX", fp.guid, [debound |-> target])
        gdxx1 == pack(gdxx, fp.ciphersuite, fp.address_algo)
        signature == _sign(fp, GuidAddress(gdxx1.guid))
    IN  Ok(pack_signature(gdxx1, signature))

----------------------------------------------------------------------------
(* cipher.py: asymmetric requests *)

InnerKinds == {"handshake", "ack", "nak"}

\* _FirstPartyBase.make_handshake
make_handshake(fp, secret, target) ==
    [kind |-> "handshake", author |-> fp.guid, target |-> target,
     secret |-> secret]

\* _FirstPartyBase.make_ack
make_ack(fp, target, status) ==
    [kind |-> "ack", author |-> fp.guid, target |-> target,
     status |-> status]

\* _FirstPartyBase.make_nak
make_nak(fp, target, status) ==
    [kind |-> "nak", author |-> fp.guid, target |-> target,
     status |-> status]

\* GARQHandshake / GARQAck / GARQNak .pack(): the inner bytes; parses is the
\* set of inner schemas that accept these bytes
InnerPack(request) ==
    [parses |-> {request.kind}, author |-> request.author,
     target |-> request.target,
     secret |-> IF request.kind = "handshake" THEN request.secret ELSE NoAttr,
     status |-> IF request.kind = "handshake" THEN 0 ELSE request.status]

\* GARQHandshake / GARQAck / GARQNak .unpack(plaintext) followed by the
\* construction of the AsymHandshake / AsymAck / AsymNak
InnerUnpack(kind, plaintext) ==
    IF kind \notin plaintext.parses
    THEN Raise("ParseError", "")
    ELSE IF kind = "handshake"
    THEN Ok([kind |-> kind, author |-> plaintext.author,
             target |-> plaintext.target, secret |-> plaintext.secret])
    ELSE Ok([kind |-> kind, author |-> plaintext.author,
             target |-> plaintext.target, status |-> plaintext.status])

\* a make_request that MACs the payload instead of the address
make_request_macs_payload(fp, recipient, request) ==
    IF ~_typecheck_2ndparty(fp, recipient)
    THEN Raise("TypeError", "Object must be a SecondParty of compatible type")
    ELSE IF request.kind \notin InnerKinds
    THEN Raise("TypeError", "Request must be an AsymHandshake, AsymAck, or AsymNak")
    ELSE LET plaintext == InnerPack(request)
             payload == _encrypt_asym(recipient, plaintext)
             garq == NewObject("GARQ", recipient.guid, [asym |-> payload])
             garq1 == pack(garq, fp.ciphersuite, fp.address_algo)
         IN  Ok(pack_signature(garq1,
                    _mac(_derive_shared(fp, recipient), SHA512(payload))))

\* _FirstPartyBase.make_request
make_request(fp, recipient, request) ==
    IF ~_typecheck_2ndparty(fp, recipient)
    THEN Raise("TypeError", "Object must be a SecondParty of compatible type")
    ELSE IF request.kind \notin InnerKinds
    THEN Raise("TypeError", "Request must be an AsymHandshake, AsymAck, or AsymNak")
    ELSE LET plaintext == InnerPack(request)
             payload == _encrypt_asym(recipient, plaintext)
             garq == NewObject("GARQ", recipient.guid, [asym |-> payload])
             garq1 == pack(garq, fp.ciphersuite, fp.address_algo)
         IN  Ok(pack_signature(garq1,
                    _mac(_derive_shared(fp, recipient),
                         GuidAddress(garq1.guid))))

\* an unpack_request that tries nak before ack
unpack_request_nak_first(fp, p) ==
    IF p.magic # "GARQ" THEN Raise("ParseError", "")
    ELSE
    LET garq == unpack(p)
        plaintext == _decrypt_asym(fp, garq.data.asym)
    IN  IF plaintext.status # "ok" THEN plaintext
        ELSE
        LET hs == InnerUnpack("handshake", plaintext.value)
            ack == InnerUnpack("ack", plaintext.value)
            nak == InnerUnpack("nak", plaintext.value)
            request == IF hs.status = "ok" THEN hs
                       ELSE IF nak.status = "ok" THEN nak
                       ELSE IF ack.status = "ok" THEN ack
                       ELSE Raise("SecurityError",
                                  "Could not securely unpack request.")
        IN  IF request.status # "ok" THEN request
            ELSE Ok([garq EXCEPT !.plaintext = request.value,
                                 !.author = request.value.author])

\* _FirstPartyBase.unpack_request
unpack_request(fp, p) ==
    IF p.magic # "GARQ" THEN Raise("ParseError", "")
    ELSE
    LET garq == unpack(p)
        plaintext == _decrypt_asym(fp, garq.data.asym)
    IN  IF plaintext.status # "ok" THEN plaintext
        ELSE
        LET hs == InnerUnpack("handshake", plaintext.value)
            ack == InnerUnpack("ack", plaintext.value)
            nak == InnerUnpack("nak", plaintext.value)
            request == IF hs.status = "ok" THEN hs
                       ELSE IF ack.status = "ok" THEN ack
                       ELSE IF nak.status = "ok" THEN nak
                       ELSE Raise("SecurityError",
                                  "Could not securely unpack request.")
        IN  IF request.status # "ok" THEN request
            ELSE Ok([garq EXCEPT !.plaintext = request.value,
                                 !.author = request.value.author])

\* del garq.author: GARQ exposes the author stored by unpack_request and
\* deleting it clears it
GARQ_del_author(garq) == [garq EXCEPT !.author = NoAttr]

\* a receive_request that returns the payload and leaves the request as is
receive_request_keeps(fp, requestor, request) ==
    IF ~_typecheck_2ndparty(fp, requestor)
    THEN [out |-> Raise("TypeError",
                        "Object must be a SecondParty of compatible type"),
          request |-> request]
    ELSE IF request.kind # "GARQ" \/ request.plaintext = NoAttr
    THEN [out |-> Raise("TypeError", "Request must be an unpacked GARQ"),
          request |-> request]
    ELSE IF ~_verify_mac(_derive_shared(fp, requestor), request.signature,
                         GuidAddress(request.guid))
    THEN [out |-> Raise("SecurityError", "Failed to verify MAC."),
          request |-> request]
    ELSE [out |-> Ok(request.plaintext), request |-> request]

\* a receive_request that deletes the plaintext and the author before it
\* verifies the MAC
receive_request_deletes_first(fp, requestor, request) ==
    IF ~_typecheck_2ndparty(fp, requestor)
    THEN [out |-> Raise("TypeError",
                        "Object must be a SecondParty of compatible type"),
          request |-> request]
    ELSE IF request.kind # "GARQ" \/ request.plaintext = NoAttr
    THEN [out |-> Raise("TypeError", "Request must be an unpacked GARQ"),
          request |-> request]
    ELSE IF ~_verify_mac(_derive_shared(fp, requestor), request.signature,
                         GuidAddress(request.guid))
    THEN [out |-> Raise("SecurityError", "Failed to verify MAC."),
          request |-> GARQ_del_author([request EXCEPT !.plaintext = NoAttr])]
    ELSE [out |-> Ok(request.plaintext),
          request |-> GARQ_del_author([request EXCEPT !.plaintext = NoAttr])]

\* _FirstPartyBase.receive_request: the outcome and the request object as the
\* call leaves it
receive_request(fp, requestor, request) ==
    IF ~_typecheck_2ndparty(fp, requestor)
    THEN [out |-> Raise("TypeError",
                        "Object must be a SecondParty of compatible type"),
          request |-> request]
    ELSE IF request.kind # "GARQ" \/ request.plaintext = NoAttr
    THEN [out |-> Raise("TypeError", "Request must be an unpacked GARQ"),
          request |-> request]
    ELSE IF ~_verify_mac(_derive_shared(fp, requestor), request.signature,
                         GuidAddress(request.guid))
    THEN [out |-> Raise("SecurityError", "Failed to verify MAC."),
          request |-> request]
    ELSE [out |-> Ok(request.plaintext),
          request |-> GARQ_del_author([request EXCEPT !.plaintext = NoAttr])]

----------------------------------------------------------------------------
(* cipher.py: receiving signed objects *)

\* a _verify without its type check: PSS is handed the key of a SecondParty
\* of another suite and fails on it
VerifyOrRaise_unchecked(fp, public, o, value) ==
    IF public.cls # "SecondParty1"
    THEN Raise("AttributeError", "PSS.verify")
    ELSE IF ~_verify(public, o.signature, GuidAddress(o.guid))
    THEN Raise("SecurityError", "Failed to verify signature.")
    ELSE Ok(value)

\* the _verify call of the receive_* methods and of verify_object
VerifyOrRaise(fp, public, o, value) ==
    IF ~_typecheck_2ndparty(fp, public)
    THEN Raise("TypeError", "Object must be a SecondParty of compatible type")
    ELSE IF ~_verify(public, o.signature, GuidAddress(o.guid))
    THEN Raise("SecurityError", "Failed to verify signature.")
    ELSE Ok(value)

\* _FirstPartyBase.receive_container
receive_container(fp, author, secret, container) ==
    IF container.kind # "GEOC"
    THEN Raise("TypeError", "Container must be an unpacked GEOC")
    ELSE VerifyOrRaise(fp, author, container,
                       _decrypt(secret, container.data.payload))

\* _FirstPartyBase.receive_bind_static
receive_bind_static(fp, binder, binding) ==
    IF binding.kind # "GOBS"
    THEN Raise("TypeError", "Binding must be an unpacked GOBS")
    ELSE VerifyOrRaise(fp, binder, binding, binding.data.target)

\* _FirstPartyBase.receive_bind_dynamic
receive_bind_dynamic(fp, binder, binding) ==
    IF binding.kind # "GOBD"
    THEN Raise("TypeError", "Binding must be an unpacked GOBD")
    ELSE VerifyOrRaise(fp, binder, binding, binding.data.targets)

\* _FirstPartyBase.receive_debind
receive_debind(fp, debinder, debinding) ==
    IF debinding.kind # "GDXX"
    THEN Raise("TypeError", "Debinding must be an unpacked GDXX")
    ELSE VerifyOrRaise(fp, debinder, debinding, debinding.data.debound)

\* _ThirdPartyBase.verify_object for ThirdParty1
verify_object(second_party, o) ==
    IF o.kind \in SymKinds
    THEN VerifyOrRaise(NoAttr, second_party, o, TRUE)
    ELSE IF o.kind = "GARQ"
    THEN Raise("ValueError",
               "Asymmetric objects cannot be verified by third parties.")
    ELSE IF o.kind = "GIDC"
    THEN Raise("ValueError", "Identity containers are inherently un-verified.")
    ELSE Raise("TypeError", "Obj must be a Golix object: GIDC, GEOC, etc.")

----------------------------------------------------------------------------
(* Inputs *)

\* plaintexts: every byte string of at most MaxLen bytes
RECURSIVE SeqsUpTo(_, _)
SeqsUpTo(S, n) ==
    IF n = 0 THEN {<<>>}
    ELSE LET shorter == SeqsUpTo(S, n - 1)
         IN  shorter \cup {Append(q, b) : q \in shorter, b \in S}

Plaintexts == SeqsUpTo(Bytes, MaxLen)

\* guids of content outside the model, used as binding targets
TargetGuids == {Guid(1, SHA512([content |-> n])) : n \in 1..2}

\* arguments of make_bind_dynamic: a first frame and an update frame
DynamicArgs ==
    {[target |-> <<t>>, guid_dynamic |-> NoAttr, history |-> <<>>] :
        t \in TargetGuids}
    \cup
    {[target |-> <<t, u>>, guid_dynamic |-> u, history |-> <<t>>] :
        t \in TargetGuids, u \in TargetGuids}

Statuses == 0..MaxStatus

\* inner payloads an identity can make
Requests(fp) ==
    LET t == CHOOSE g \in TargetGuids : TRUE
    IN  {make_handshake(fp, s, t) : s \in Secrets1}
        \cup {make_ack(fp, t, n) : n \in Statuses}
        \cup {make_nak(fp, t, n) : n \in Statuses}

----------------------------------------------------------------------------
(* State machine: one object is minted (or crafted by an outsider), its    *)
(* packed bytes travel, are unpacked and received                          *)

NoCall == [op |-> "none"]

NoResult == [op |-> "none"]

Init ==
    /\ \E algos \in [Ids -> ADDRESS_ALGOS] :
           party = [x \in Ids |-> FirstParty1(x, algos[x])]
    /\ obj = NoObj
    /\ packed = NoBytes
    /\ call = NoCall
    /\ sealed = NoObj
    /\ tampered = FALSE
    /\ result = NoResult

\* the effect of a make_* call with outcome r
Minted(c, r) ==
    /\ call = NoCall
    /\ call' = c
    /\ obj' = IF r.status = "ok" THEN r.value ELSE NoObj
    /\ sealed' = obj'
    /\ packed' = IF r.status = "ok" THEN PackedOf(r.value) ELSE NoBytes
    /\ tampered' = FALSE
    /\ result' = [op |-> c.op, by |-> c.by, out |-> r]
    /\ UNCHANGED party

MakeContainer(a, secret, plaintext) ==
    Minted([op |-> "make_container", by |-> a, secret |-> secret,
            plaintext |-> plaintext],
           make_container(party[a], secret, plaintext))

MakeBindStatic(a, target) ==
    Minted([op |-> "make_bind_static", by |-> a, target |-> target],
           make_bind_static(party[a], target))

MakeBindDynamic(a, args) ==
    Minted([op |-> "make_bind_dynamic", by |-> a, targets |-> args.target],
           make_bind_dynamic(party[a], args.target, args.guid_dynamic,
                             args.history))

MakeDebind(a, target) ==
    Minted([op |-> "make_debind", by |-> a, debound |-> target],
           make_debind(party[a], target))

\* make_request by a to b, of an inner payload made by m
MakeRequest(a, b, m, request) ==
    Minted([op |-> "make_request", by |-> a, to |-> b, maker |-> m,
            request |-> request],
           make_request(party[a], party[b].second_party, request))


----------------------------------------------------------------------------
(* The packed bytes in transit: altered, or crafted by an outsider *)

\* packed bytes that differ from p in one field of the unsigned body
AlteredData(p) ==
    IF p.magic = "GEOC"
    THEN {[payload |-> Append(p.data.payload, 0)]}
         \cup (IF p.data.payload = <<>> THEN {}
               ELSE {[payload |-> <<1 - Head(p.data.payload)>>
                                  \o Tail(p.data.payload)]})
    ELSE IF p.magic = "GOBS"
    THEN {[target |-> t] : t \in TargetGuids \ {p.data.target}}
    ELSE IF p.magic = "GOBD"
    THEN {[p.data EXCEPT !.targets = <<t>>] :
             t \in {u \in TargetGuids : <<u>> # p.data.targets}}
    ELSE IF p.magic = "GDXX"
    THEN {[debound |-> t] : t \in TargetGuids \ {p.data.debound}}
    ELSE {[asym |-> [p.data.asym EXCEPT !.oaep = <<"-", "enc">>]]}

Altered(p) ==
    {[p EXCEPT !.data = d] : d \in AlteredData(p)}
    \cup {[p EXCEPT !.who = party[x].guid] :
             x \in {y \in Ids : party[y].guid # p.who}}
    \cup {[p EXCEPT !.address_algo = 1 - p.address_algo]}

\* receive_container, receive_bind_*, receive_debind and verify_object leave
\* the object, the bytes and the identities as they are: every call that can
\* follow one of them can be made in its place, so the model makes it there
PureOps ==
    {"receive_container", "receive_bind_static", "receive_bind_dynamic",
     "receive_debind", "verify_object"}

Tamper ==
    /\ result.op \notin PureOps
    /\ packed # NoBytes
    /\ ~tampered
    /\ call.op # "craft"
    /\ \E p \in Altered(packed) : packed' = p
    /\ tampered' = TRUE
    /\ result' = NoResult
    /\ UNCHANGED <<party, obj, call, sealed>>

\* inner bytes an outsider can put into a request: any author, accepted by
\* any subset of the inner schemas
CraftedPlaintexts ==
    {[parses |-> ps, author |-> party[x].guid,
      target |-> CHOOSE t \in TargetGuids : TRUE,
      secret |-> Secret(1, 1, 0), status |-> 0] :
        ps \in SUBSET InnerKinds, x \in Ids}

\* an outsider packs a GARQ for recipient b; the payload is encrypted to b
\* or is not a valid ciphertext for b; the trailer is not a MAC
CraftRequest(b, plaintext, valid) ==
    LET key == IF valid THEN party[b].second_party.keys.encryption
               ELSE [n |-> <<"-", "enc">>, private |-> FALSE]
        garq == pack(NewObject("GARQ", party[b].guid,
                               [asym |-> OAEPEncrypt(key, plaintext)]), 1, 1)
    IN  /\ call = NoCall
        /\ packed' = PackedOf(pack_signature(garq, [junk |-> TRUE]))
        /\ obj' = NoObj
        /\ sealed' = NoObj
        /\ call' = [op |-> "craft", to |-> b]
        /\ tampered' = FALSE
        /\ result' = NoResult
        /\ UNCHANGED party

----------------------------------------------------------------------------
(* Unpacking and receiving *)

\* _ObjectHandlerBase.unpack_container / unpack_bind_static /
\* unpack_bind_dynamic / unpack_debind on the bytes in transit
Unpack ==
    /\ result.op \notin PureOps
    /\ packed.magic \in SymKinds
    /\ obj' = unpack(packed)
    /\ result' = [op |-> "unpack", out |-> Ok(unpack(packed))]
    /\ UNCHANGED <<party, packed, call, sealed, tampered>>

UnpackRequest(b) ==
    /\ result.op \notin PureOps
    /\ packed # NoBytes
    /\ LET r == unpack_request(party[b], packed)
       IN  /\ obj' = IF r.status = "ok" THEN r.value ELSE NoObj
           /\ result' = [op |-> "unpack_request", by |-> b, out |-> r]
    /\ UNCHANGED <<party, packed, call, sealed, tampered>>

\* the effect of a receive_* / verify_object call that leaves the object alone
Received(op, b, x, secret, r) ==
    /\ result.op \notin PureOps
    /\ obj # NoObj
    /\ op # "verify_object" => obj.kind \in SymKinds
    /\ result' = [op |-> op, by |-> b, sp |-> x, secret |-> secret,
                  before |-> obj, out |-> r]
    /\ UNCHANGED <<party, obj, packed, call, sealed, tampered>>

\* the secrets a recipient offers to receive_container: the one the container
\* was made with, one that differs from it in the key and one in the seed
ReceiveSecrets ==
    IF call.op = "make_container"
    THEN {call.secret,
          Secret(1, (call.secret.key % NumKeys) + 1, call.secret.seed),
          Secret(1, call.secret.key, (call.secret.seed + 1) % (MaxSeed + 1))}
    ELSE {Secret(1, 1, 0)}

ReceiveContainer(b, x, secret) ==
    Received("receive_container", b, x, secret,
             receive_container(party[b], party[x].second_party, secret, obj))

ReceiveBindStatic(b, x) ==
    Received("receive_bind_static", b, x, NoAttr,
             receive_bind_static(party[b], party[x].second_party, obj))

ReceiveBindDynamic(b, x) ==
    Received("receive_bind_dynamic", b, x, NoAttr,
             receive_bind_dynamic(party[b], party[x].second_party, obj))

ReceiveDebind(b, x) ==
    Received("receive_debind", b, x, NoAttr,
             receive_debind(party[b], party[x].second_party, obj))

VerifyObject(x) ==
    Received("verify_object", "", x, NoAttr,
             verify_object(party[x].second_party, obj))

ReceiveRequest(b, x) ==
    /\ result.op \notin PureOps
    /\ obj # NoObj
    /\ LET r == receive_request(party[b], party[x].second_party, obj)
       IN  /\ obj' = r.request
           /\ result' = [op |-> "receive_request", by |-> b, sp |-> x,
                         secret |-> NoAttr, before |-> obj, out |-> r.out]
    /\ UNCHANGED <<party, packed, call, sealed, tampered>>

----------------------------------------------------------------------------

Next ==
    \/ /\ call = NoCall
       /\ \E a \in Ids, s \in Secrets1, m \in Plaintexts :
              MakeContainer(a, s, m)
    \/ /\ call = NoCall
       /\ \E a \in Ids, t \in TargetGuids : MakeBindStatic(a, t)
    \/ /\ call = NoCall
       /\ \E a \in Ids, d \in DynamicArgs : MakeBindDynamic(a, d)
    \/ /\ call = NoCall
       /\ \E a \in Ids, t \in TargetGuids : MakeDebind(a, t)
    \/ /\ call = NoCall
       /\ \E a \in Ids, b \in Ids, m \in Ids :
              \E r \in Requests(party[m]) : MakeRequest(a, b, m, r)
    \/ Tamper
    \/ /\ call = NoCall
       /\ \E b \in Ids, pt \in CraftedPlaintexts, valid \in BOOLEAN :
              CraftRequest(b, pt, valid)
    \/ Unpack
    \/ /\ result.op \notin PureOps
       /\ \E b \in Ids : UnpackRequest(b)
    \/ /\ result.op \notin PureOps
       /\ \E b \in Ids, x \in Ids, s \in ReceiveSecrets :
              ReceiveContainer(b, x, s)
    \/ /\ result.op \notin PureOps
       /\ \E b \in Ids, x \in Ids : ReceiveBindStatic(b, x)
    \/ /\ result.op \notin PureOps
       /\ \E b \in Ids, x \in Ids : ReceiveBindDynamic(b, x)
    \/ /\ result.op \notin PureOps
       /\ \E b \in Ids, x \in Ids : ReceiveDebind(b, x)
    \/ /\ result.op \notin PureOps
       /\ \E x \in Ids : VerifyObject(x)
    \/ /\ result.op \notin PureOps
       /\ \E b \in Ids, x \in Ids : ReceiveRequest(b, x)

Spec == Init /\ [][Next]_vars

----------------------------------------------------------------------------
(* Properties *)

\* the last call was receive_request on a request that unpack_request
\* returned and that make_request of identity call.by had minted
ReceivedMintedRequest ==
    /\ result.op = "receive_request"
    /\ call.op = "make_request"
    /\ result.before.kind = "GARQ"
    /\ result.before.plaintext # NoAttr

\* C1: asymmetric request round-trip.  When B receives, with A's
\* SecondParty as requestor, the request that B unpacked from the bytes A's
\* make_request packed for B around an inner payload made by A, the call
\* returns a payload equal to that inner payload.
C1_RequestRoundTrip ==
    (/\ ReceivedMintedRequest
     /\ ~tampered
     /\ call.maker = call.by
     /\ result.by = call.to
     /\ result.sp = call.by)
    => result.out = Ok(call.request)

C1_Witness ==
    /\ ReceivedMintedRequest
    /\ ~tampered
    /\ call.maker = call.by
    /\ call.by # call.to
    /\ result.by = call.to
    /\ result.sp = call.by
    /\ call.request.kind = "handshake"
    /\ result.out.status = "ok"
    /\ result.out.value.secret = call.request.secret

C3_AuthorIsRequestor ==
    (/\ result.op = "receive_request"
     /\ result.out.status = "ok")
    => GuidEq(result.before.author, party[result.sp].guid)

\* C4: after a successful receive_request the request's plaintext and
\* author are cleared and the value returned is the payload that was
\* attached before the call.
C4_ClearedAfterReceive ==
    (/\ result.op = "receive_request"
     /\ result.out.status = "ok")
    => /\ obj.plaintext = NoAttr
       /\ obj.author = NoAttr
       /\ result.before.plaintext # NoAttr
       /\ result.before.author # NoAttr
       /\ result.out.value = result.before.plaintext

C4_Witness ==
    /\ result.op = "receive_request"
    /\ result.out.status = "ok"
    /\ result.before.author = party[call.by].guid
    /\ obj = [result.before EXCEPT !.plaintext = NoAttr, !.author = NoAttr]
    /\ obj # result.before

----------------------------------------------------------------------------

SymMakeOps ==
    {"make_container", "make_bind_static", "make_bind_dynamic", "make_debind"}

\* the address of the bytes that pack the unsigned body of a minted object
SealedAddress ==
    hash_lookup_create(sealed.address_algo, UnsignedBody(PackedOf(sealed)))

\* C5: signing convention.  Every object make_container, make_bind_static,
\* make_bind_dynamic and make_debind return carries the minter's signature
\* of the address of its guid, every object make_request returns carries the
\* MAC of that address under the key derived with the recipient, and that
\* address is the address of the packed unsigned body.
C5_SigningConvention ==
    sealed # NoObj =>
       /\ GuidAddress(sealed.guid) = SealedAddress
       /\ sealed.guid.algo = party[call.by].address_algo
       /\ call.op \in SymMakeOps =>
             sealed.signature =
                 PSSSign(party[call.by].keys.signature, SealedAddress)
       /\ call.op = "make_request" =>
             sealed.signature =
                 HMAC(_derive_shared(party[call.by],
                                     party[call.to].second_party),
                      SealedAddress)

C5_Witness ==
    /\ sealed # NoObj
    /\ sealed.kind = "GEOC"
    /\ sealed.address_algo = 1
    /\ result.op = "make_container"
    /\ obj = sealed
    /\ sealed.signature.h = SHA512(UnsignedBody(packed))
    /\ sealed.signature.h # SHA512(packed)

\* the last call was the receive_* call that matches the kind of the object
\* a make_* call minted
ReceivedMinted ==
    \/ result.op = "receive_container" /\ call.op = "make_container"
    \/ result.op = "receive_bind_static" /\ call.op = "make_bind_static"
    \/ result.op = "receive_bind_dynamic" /\ call.op = "make_bind_dynamic"
    \/ result.op = "receive_debind" /\ call.op = "make_debind"

\* C6: signed-object round-trip.  Receiving an object as minted, with the
\* minter's SecondParty, returns the plaintext given to make_container
\* (under the same Secret) and the target(s) given to make_bind_static,
\* make_bind_dynamic and make_debind.
C6_SignedRoundTrip ==
    (/\ ReceivedMinted
     /\ ~tampered
     /\ result.sp = call.by)
    => /\ result.op = "receive_container" =>
             (result.secret = call.secret =>
                 result.out = Ok(call.plaintext))
       /\ result.op = "receive_bind_static" =>
             result.out = Ok(call.target)
       /\ result.op = "receive_bind_dynamic" =>
             result.out = Ok(call.targets)
       /\ result.op = "receive_debind" =>
             result.out = Ok(call.debound)

C6_Witness ==
    /\ result.op = "receive_container"
    /\ call.op = "make_container"
    /\ ~tampered
    /\ result.sp = call.by
    /\ result.secret = call.secret
    /\ Len(call.plaintext) = 2
    /\ result.before.data.payload # call.plaintext
    /\ result.out = Ok(call.plaintext)

\* C7: a third party verifies an object minted by A against A's
\* SecondParty, and fails with the signature failure against the
\* SecondParty of any other identity.
C7_ThirdPartyVerify ==
    (/\ result.op = "verify_object"
     /\ call.op \in SymMakeOps
     /\ ~tampered)
    => IF result.sp = call.by
       THEN result.out = Ok(TRUE)
       ELSE result.out =
                Raise("SecurityError", "Failed to verify signature.")

C7_Witness ==
    /\ result.op = "verify_object"
    /\ call.op = "make_bind_static"
    /\ ~tampered
    /\ result.sp # call.by
    /\ result.out.status = "SecurityError"

\* the last call was a receive_* call on the object unpacked from bytes
\* that were altered after an identity with address algorithm 1 sealed
\* them, so that the guid recomputed on unpack is not the one signed
ReceivedTampered ==
    /\ tampered
    /\ party[call.by].address_algo = 1
    /\ \/ ReceivedMinted
       \/ ReceivedMintedRequest
    /\ result.before.guid # sealed.guid

\* C8: tamper detection.  Every receive_* call on such an object raises a
\* security error and returns neither target nor plaintext.
C8_TamperDetected ==
    ReceivedTampered
    => /\ result.out.status = "SecurityError"
       /\ result.out.value = NoAttr

C8_Witness ==
    /\ ReceivedTampered
    /\ result.op = "receive_container"
    /\ result.sp = call.by
    /\ result.secret = call.secret
    /\ result.before.data.payload # sealed.data.payload
    /\ result.out.status = "SecurityError"

\* C9 (as claimed): whenever unpack_request fails on a packed GARQ, because
\* the payload does not decrypt or parses as no inner kind, it fails with
\* the security error of unpack_request, and no object is returned.
C9_BadRequest ==
    (/\ result.op = "unpack_request"
     /\ packed.magic = "GARQ"
     /\ result.out.status # "ok")
    => /\ result.out =
              Raise("SecurityError", "Could not securely unpack request.")
       /\ obj = NoObj

\* the first inner kind, in the order handshake, ack, nak, that parses
FirstParsing(parses) ==
    IF "handshake" \in parses THEN "handshake"
    ELSE IF "ack" \in parses THEN "ack"
    ELSE "nak"

----------------------------------------------------------------------------
(* cipher.py: _ThirdPartyBase.unpack_object *)

\* the schemas unpack_object tries, in the order of its loop
Formats == <<"GIDC", "GEOC", "GOBS", "GOBD", "GDXX", "GARQ">>

\* the schemas that accept the bytes p: the schema of its magic, and for
\* bytes written by an outsider the schemas named in them
Parses(p) ==
    IF p.magic = "crafted" THEN p.parses
    ELSE IF p.magic = "none" THEN {}
    ELSE {p.magic}

\* <KIND>.unpack(packed): the object, or ParseError
FormatUnpack(kind, p) ==
    IF kind \in Parses(p) THEN Ok([unpack(p) EXCEPT !.kind = kind])
    ELSE Raise("ParseError", "")

\* the loop of unpack_object over the formats left, from (success, obj)
RECURSIVE unpack_object_loop(_, _, _)
unpack_object_loop(formats, p, acc) ==
    IF formats = <<>> THEN acc
    ELSE LET r == FormatUnpack(Head(formats), p)
         IN  unpack_object_loop(Tail(formats), p,
                 IF r.status = "ok"
                 THEN [success |-> TRUE, obj |-> r.value]
                 ELSE acc)

\* _ThirdPartyBase.unpack_object
unpack_object(p) ==
    LET end == unpack_object_loop(Formats, p,
                                  [success |-> FALSE, obj |-> NoObj])
    IN  IF ~end.success
        THEN Raise("ParseError",
                   "Packed data does not appear to be a Golix object.")
        ELSE Ok(end.obj)

----------------------------------------------------------------------------
(* A third party: bytes of any origin are unpacked and verified *)

\* bytes an outsider writes: accepted by any subset of the schemas
CraftedObjects ==
    {[magic |-> "crafted", parses |-> ps, cipher |-> 1, address_algo |-> 1,
      who |-> NoAttr, data |-> [junk |-> TRUE], signature |-> [junk |-> TRUE]] :
        ps \in SUBSET {Formats[i] : i \in 1..Len(Formats)}}

\* bytes p appear in transit, not minted by a make_* call of the model
Published(c, p) ==
    /\ call = NoCall
    /\ call' = c
    /\ packed' = p
    /\ obj' = NoObj
    /\ sealed' = NoObj
    /\ tampered' = FALSE
    /\ result' = NoResult
    /\ UNCHANGED party

\* an identity publishes its packed GIDC (SecondParty.packed)
PublishIdentity(a) ==
    Published([op |-> "identity", by |-> a], party[a].second_party.packed)

CraftObject(p) == Published([op |-> "craft"], p)

ThirdOps == {"unpack_object", "verify_object"}

UnpackObject ==
    /\ result.op \notin ThirdOps
    /\ packed # NoBytes
    /\ LET r == unpack_object(packed)
       IN  /\ obj' = IF r.status = "ok" THEN r.value ELSE NoObj
           /\ result' = [op |-> "unpack_object", out |-> r]
    /\ UNCHANGED <<party, packed, call, sealed, tampered>>

ThirdNext ==
    \/ /\ call = NoCall
       /\ \E a \in Ids, s \in Secrets1, m \in Plaintexts :
              MakeContainer(a, s, m)
    \/ /\ call = NoCall
       /\ \E a \in Ids, t \in TargetGuids : MakeBindStatic(a, t)
    \/ /\ call = NoCall
       /\ \E a \in Ids, d \in DynamicArgs : MakeBindDynamic(a, d)
    \/ /\ call = NoCall
       /\ \E a \in Ids, t \in TargetGuids : MakeDebind(a, t)
    \/ /\ call = NoCall
       /\ \E a \in Ids, b \in Ids :
              \E r \in Requests(party[a]) : MakeRequest(a, b, a, r)
    \/ \E a \in Ids : PublishIdentity(a)
    \/ \E p \in CraftedObjects : CraftObject(p)
    \/ UnpackObject
    \/ \E x \in Ids : VerifyObject(x)

ThirdSpec == Init /\ [][ThirdNext]_vars

\* the first format, in the order of Formats, that parses p
FirstFormat(p) ==
    Formats[CHOOSE i \in 1..Len(Formats) :
               /\ Formats[i] \in Parses(p)
               /\ \A j \in 1..(i - 1) : Formats[j] \notin Parses(p)]

\* C11 (as claimed): unpack_object returns the object of the first schema,
\* in the order GIDC, GEOC, GOBS, GOBD, GDXX, GARQ, that parses the bytes,
\* even when a later schema parses them too, and fails with the parse error
\* when no schema parses them.
C11_FirstSuccessWins ==
    result.op = "unpack_object" =>
        IF Parses(packed) = {}
        THEN result.out =
                 Raise("ParseError",
                       "Packed data does not appear to be a Golix object.")
        ELSE result.out = FormatUnpack(FirstFormat(packed), packed)

\* the outcome of verify_object on the same object seen as the other of
\* GARQ and GIDC
OtherRejection ==
    LET other == IF result.before.kind = "GARQ" THEN "GIDC" ELSE "GARQ"
    IN  verify_object(party[result.sp].second_party,
                      [result.before EXCEPT !.kind = other])

\* C12 (as claimed): verify_object rejects a GARQ and a GIDC without
\* verifying anything, each with an error kind of its own, which is neither
\* the kind raised for the other nor the signature failure.
C12_DistinctRejections ==
    (/\ result.op = "verify_object"
     /\ result.before.kind \in {"GARQ", "GIDC"})
    => /\ result.out.status \notin {"ok", "SecurityError"}
       /\ result.out.status # OtherRejection.status

----------------------------------------------------------------------------
(* Symmetric encryption: Secrets of either suite offered to a suite-1      *)
(* identity, and the cipher applied on its own                             *)

\* Secrets of suite 0: a key of the same length, an empty seed, which
\* int.from_bytes reads as 0
Secrets0 == {Secret(0, k, 0) : k \in SecretKeys}

AnySecrets == Secrets0 \cup Secrets1

\* FirstParty1._encrypt(secret, data) called on its own
SymEncrypt(secret, data) ==
    /\ call = NoCall
    /\ call' = [op |-> "_encrypt", secret |-> secret, plaintext |-> data]
    /\ result' = [op |-> "_encrypt", out |-> Ok(_encrypt(secret, data))]
    /\ UNCHANGED <<party, obj, packed, sealed, tampered>>

\* FirstParty1._decrypt(secret, data) on the ciphertext just produced, with
\* the same Secret
SymDecrypt ==
    /\ result.op = "_encrypt"
    /\ result' = [op |-> "_decrypt", data |-> result.out.value,
                  out |-> Ok(_decrypt(call.secret, result.out.value))]
    /\ UNCHANGED <<party, obj, packed, call, sealed, tampered>>

SymNext ==
    \/ /\ call = NoCall
       /\ \E a \in Ids, s \in AnySecrets, m \in Plaintexts :
              MakeContainer(a, s, m)
    \/ Unpack
    \/ /\ result.op \notin PureOps
       /\ \E b \in Ids, x \in Ids, s \in AnySecrets :
              ReceiveContainer(b, x, s)
    \/ \E s \in Secrets1, m \in Plaintexts : SymEncrypt(s, m)
    \/ SymDecrypt

SymSpec == Init /\ [][SymNext]_vars

\* C13: make_container with a Secret whose cipher is not the suite of the
\* identity raises the type error of the Secret check, and nothing is
\* encrypted, packed or signed: no object and no bytes come out of the call.
C13_IncompatibleSecretMake ==
    (/\ result.op = "make_container"
     /\ call.secret.cipher # party[call.by].ciphersuite)
    => /\ result.out.status = "TypeError"
       /\ result.out.value = NoAttr
       /\ obj = NoObj
       /\ packed = NoBytes

C13_Witness ==
    /\ result.op = "make_container"
    /\ call.secret.cipher = 0
    /\ party[call.by].ciphersuite = 1
    /\ call.plaintext # <<>>
    /\ result.out.status = "TypeError"
    /\ packed = NoBytes

\* C14 (as claimed): receive_container with a Secret whose cipher is not the
\* suite of the receiving identity raises the type error of the Secret check
\* and returns no plaintext, here for a container received as minted, with
\* the SecondParty of its author.
C14_IncompatibleSecretReceive ==
    (/\ result.op = "receive_container"
     /\ call.op = "make_container"
     /\ result.before.kind = "GEOC"
     /\ result.sp = call.by
     /\ result.secret.cipher # party[result.by].ciphersuite)
    => /\ result.out.status = "TypeError"
       /\ result.out.value = NoAttr

\* C20: symmetric cipher inverse for suite 1.  Decrypting, with the same
\* Secret, what _encrypt made of m gives m back, and the ciphertext is as
\* long as m.
C20_SymmetricInverse ==
    result.op = "_decrypt"
    => /\ call.secret.cipher = 1
       /\ result.out = Ok(call.plaintext)
       /\ Len(result.data) = Len(call.plaintext)

C20_Witness ==
    /\ result.op = "_decrypt"
    /\ Len(call.plaintext) = 2
    /\ call.secret.seed > 0
    /\ result.data # call.plaintext
    /\ result.data[1] = call.plaintext[1]
    /\ result.out = Ok(call.plaintext)

----------------------------------------------------------------------------
(* utils.py: Secret as an object, with the lengths of its byte strings     *)

\* cipher_length_lookup: the key and seed lengths of each cipher
cipher_length_lookup ==
    [c \in {0, 1, 2} |->
        IF c = 0 THEN [key |-> 32, seed |-> 0]
        ELSE IF c = 1 THEN [key |-> 32, seed |-> 16]
        ELSE [key |-> 64, seed |-> 0]]

\* _secret_versions: the versions with a registered parser
_secret_versions == {2}

\* _secret_latest
_secret_latest == 2

\* byte strings given as key or seed: a length and the content, b'' being
\* the one string of length 0
Blobs ==
    {[len |-> 0, val |-> 0]}
    \cup {[len |-> n, val |-> v] : n \in {16, 32, 64}, v \in SecretKeys}

\* the version argument of Secret(): 'latest' or a number
VersionArgs == {[latest |-> TRUE]} \cup {[n |-> v] : v \in {2, 3}}

\* Secret.__init__(cipher, key, seed, version) making the object oid
Secret__init__(oid, cipher, key, seed, version) ==
    LET seed1 == IF seed = NoAttr THEN [len |-> 0, val |-> 0] ELSE seed
    IN  IF "n" \in DOMAIN version /\ version.n \notin _secret_versions
        THEN Raise("ValueError", "Improper Secret version declaration.")
        ELSE IF cipher \notin DOMAIN cipher_length_lookup
        THEN Raise("ValueError", "Unsupported cipher declaration.")
        ELSE IF key.len # cipher_length_lookup[cipher].key
        THEN Raise("ValueError", "Key must be of proper length")
        ELSE IF seed1.len # cipher_length_lookup[cipher].seed
        THEN Raise("ValueError", "Seed must be of proper length")
        ELSE Ok([oid |-> oid,
                 version |-> IF "latest" \in DOMAIN version
                             THEN _secret_latest ELSE version.n,
                 cipher |-> cipher, key |-> key, seed |-> seed1])

\* s1 == s2 on two Secrets: the class defines no __eq__, so the comparison
\* is that of object, by identity
Secret__eq__(s1, s2) == s1.oid = s2.oid

\* Secret.__bytes__: _secret_parsers[version].pack(_control); the prepack
\* callback of the cipher field sets the lengths of the key and seed fields
Secret__bytes__(s) ==
    [magic |-> "SH", version |-> s.version, cipher |-> s.cipher,
     key |-> s.key, seed |-> s.seed]

\* the exception classes a failing postunpack callback of the cipher field
\* can surface as: the KeyError of the lookup, or the parser's ParseError
CallbackErrors == {"KeyError", "ParseError"}

\* _secret_parser.unpack(data): the magic literal, the version, the cipher
\* with its postunpack callback, then key and seed of the looked-up lengths
_secret_parser_unpack(data, err) ==
    IF data.magic # "SH" THEN Raise("ParseError", "")
    ELSE IF data.cipher \notin DOMAIN cipher_length_lookup
    THEN Raise(err, "")
    ELSE IF \/ data.key.len # cipher_length_lookup[data.cipher].key
            \/ data.seed.len # cipher_length_lookup[data.cipher].seed
    THEN Raise("ParseError", "")
    ELSE Ok([version |-> data.version, cipher |-> data.cipher,
             key |-> data.key, seed |-> data.seed])

\* Secret.from_bytes(data) making the object oid
Secret_from_bytes(oid, data, err) ==
    LET o == _secret_parser_unpack(data, err)
    IN  IF o.status # "ok" THEN o
        ELSE Secret__init__(oid, o.value.cipher, o.value.key, o.value.seed,
                            [n |-> o.value.version])

----------------------------------------------------------------------------
(* Secrets are constructed, serialized and parsed *)

\* serialized Secrets an outsider writes: any magic, version and cipher; the
\* key and seed have the lengths of the cipher when it is registered
CraftedSecrets ==
    {[magic |-> mg, version |-> v, cipher |-> c, key |-> k, seed |-> s] :
        mg \in {"SH", "XX"}, v \in {2, 3}, c \in {1, 2, 3},
        k \in {b \in Blobs : b.val <= 1},
        s \in {b \in Blobs : b.val <= 1}}

\* byte string lengths that fit the cipher, when it is registered
FitsCipher(p) ==
    p.cipher \in DOMAIN cipher_length_lookup =>
        /\ p.key.len = cipher_length_lookup[p.cipher].key
        /\ p.seed.len = cipher_length_lookup[p.cipher].seed

SecretInit ==
    /\ party = [x \in Ids |-> FirstParty1(x, 1)]
    /\ obj = NoObj
    /\ packed = NoBytes
    /\ call = NoCall
    /\ sealed = NoObj
    /\ tampered = FALSE
    /\ result = NoResult

\* s = Secret(cipher, key, seed, version)
NewSecret(cipher, key, seed, version) ==
    LET r == Secret__init__(1, cipher, key, seed, version)
    IN  /\ call = NoCall
        /\ call' = [op |-> "Secret", cipher |-> cipher, key |-> key,
                    seed |-> seed, version |-> version]
        /\ sealed' = IF r.status = "ok" THEN r.value ELSE NoObj
        /\ result' = [op |-> "Secret", out |-> r]
        /\ UNCHANGED <<party, obj, packed, tampered>>

\* bytes(s)
SecretBytes ==
    /\ result.op = "Secret"
    /\ result.out.status = "ok"
    /\ packed' = Secret__bytes__(sealed)
    /\ result' = [op |-> "bytes", out |-> Ok(Secret__bytes__(sealed))]
    /\ UNCHANGED <<party, obj, call, sealed, tampered>>

CraftSecret(p) ==
    /\ call = NoCall
    /\ FitsCipher(p)
    /\ call' = [op |-> "craft"]
    /\ packed' = p
    /\ UNCHANGED <<party, obj, sealed, tampered, result>>

\* Secret.from_bytes(data) on the bytes at hand
SecretFromBytes(err) ==
    /\ packed # NoBytes
    /\ result.op # "from_bytes"
    /\ result' = [op |-> "from_bytes",
                  out |-> Secret_from_bytes(2, packed, err)]
    /\ UNCHANGED <<party, obj, packed, call, sealed, tampered>>

SecretNext ==
    \/ /\ call = NoCall
       /\ \E c \in 0..3, k \in Blobs, s \in Blobs \cup {NoAttr},
             v \in VersionArgs : NewSecret(c, k, s, v)
    \/ SecretBytes
    \/ \E p \in CraftedSecrets : CraftSecret(p)
    \/ \E err \in CallbackErrors : SecretFromBytes(err)

SecretSpec == SecretInit /\ [][SecretNext]_vars

\* the cipher length table of the specification: the two live suites
SpecLengths ==
    [c \in {0, 1} |->
        IF c = 0 THEN [key |-> 32, seed |-> 0] ELSE [key |-> 32, seed |-> 16]]

\* C15 (as claimed): every Secret that exists, made by the constructor or by
\* from_bytes, has a cipher of the specification's length table (suites 0
\* and 1) and a key and a seed of the lengths the table gives for it; any
\* other construction fails.
C15_SecretLengths ==
    (/\ result.op \in {"Secret", "from_bytes"}
     /\ result.out.status = "ok")
    => LET s == result.out.value
       IN  /\ s.cipher \in DOMAIN SpecLengths
           /\ s.key.len = SpecLengths[s.cipher].key
           /\ s.seed.len = SpecLengths[s.cipher].seed

\* C16 (as claimed): Secret round-trip.  from_bytes(bytes(s)) has the
\* version, cipher, key and seed of s and compares equal to s.
C16_SecretRoundTrip ==
    (/\ result.op = "from_bytes"
     /\ call.op = "Secret")
    => /\ result.out.status = "ok"
       /\ result.out.value.version = sealed.version
       /\ result.out.value.cipher = sealed.cipher
       /\ result.out.value.key = sealed.key
       /\ result.out.value.seed = sealed.seed
       /\ Secret__eq__(result.out.value, sealed)

\* the error kind from_bytes raises for the bytes at hand with their magic
\* replaced by one that is not "SH"
BadMagicKind ==
    Secret_from_bytes(2, [packed EXCEPT !.magic = "XX"], "ParseError").status

\* C17 (as claimed): from_bytes of bytes whose magic is not "SH", whose
\* version is not registered or whose cipher is not registered returns no
\* Secret and fails with one and the same error kind in all three cases.
C17_InvalidSecretEncoding ==
    (/\ result.op = "from_bytes"
     /\ \/ packed.magic # "SH"
        \/ packed.version \notin _secret_versions
        \/ packed.cipher \notin DOMAIN cipher_length_lookup)
    => /\ result.out.status # "ok"
       /\ result.out.value = NoAttr
       /\ result.out.status = BadMagicKind

----------------------------------------------------------------------------
(* cipher.py: identities built from existing material *)

\* DEFAULT_ADDRESSER
DEFAULT_ADDRESSER == 1

\* utils._dummy_pubkey, the key of every suite-0 identity
_dummy_pubkey == [dummy |-> "pubkey"]

\* FirstParty0._generate_second_party: SecondParty0.from_keys on the dummy
\* keys, SecondParty0._pack_keys being the identity on them
FirstParty0_second_party(address_algo) ==
    LET keys == [signature |-> _dummy_pubkey, encryption |-> _dummy_pubkey,
                 exchange |-> _dummy_pubkey]
        gidc == pack(NewObject("GIDC", NoAttr, keys), 0, address_algo)
    IN  [cls |-> "SecondParty0", ciphersuite |-> 0, keys |-> keys,
         guid |-> gidc.guid, packed |-> PackedOf(gidc)]

\* _ObjectHandlerBase.unpack_identity
unpack_identity(p) == FormatUnpack("GIDC", p)

\* _SecondPartyBase.from_identity for SecondParty1: the guid and the three
\* key fields of the GIDC, whatever its cipher
from_identity(gidc) ==
    [cls |-> "SecondParty1", ciphersuite |-> 1,
     keys |-> [signature |-> gidc.data.signature,
               encryption |-> gidc.data.encryption,
               exchange |-> gidc.data.exchange],
     guid |-> gidc.guid, packed |-> NoAttr]

\* _SecondPartyBase.from_packed for SecondParty1
from_packed(p) ==
    LET gidc == unpack_identity(p)
    IN  IF gidc.status # "ok" THEN gidc
        ELSE Ok([from_identity(gidc.value) EXCEPT !.packed = p])

\* bytes(guid): Guid defines neither __bytes__ nor the buffer protocol, and
\* its __getitem__ passes the index 0 to getattr
Guid__bytes__(g) ==
    Raise("TypeError", "cannot convert 'Guid' object to bytes")

\* Guid.from_bytes: Guid has no such attribute
Guid_from_bytes(b) ==
    Raise("AttributeError", "type object 'Guid' has no attribute 'from_bytes'")

\* key.exportKey(format='DER') / bytes(key.private)
exportKey(key) == [der |-> key]

\* RSA.import_key / ECDHPrivate.load
import_key(b) ==
    IF "der" \in DOMAIN b THEN Ok(b.der)
    ELSE Raise("ValueError", "RSA key format is not supported")

\* FirstParty1._serialize
_serialize(fp) ==
    LET guid == Guid__bytes__(fp.guid)
    IN  IF guid.status # "ok" THEN guid
        ELSE Ok([guid |-> guid.value,
                 signature |-> exportKey(fp.keys.signature),
                 encryption |-> exportKey(fp.keys.encryption),
                 exchange |-> exportKey(fp.keys.exchange)])

\* _FirstPartyBase.__init__ with keys and guid given: an existing identity
\* is loaded, with the default address algorithm and no second party
FirstParty1_load(keys, guid) ==
    [cls |-> "FirstParty1", ciphersuite |-> 1,
     address_algo |-> DEFAULT_ADDRESSER, keys |-> keys, guid |-> guid,
     second_party |-> NoAttr]

\* FirstParty1._from_serialized: TypeError and KeyError of the loading are
\* re-raised as TypeError, any other exception passes through
_from_serialized(serialization) ==
    LET guid == Guid_from_bytes(serialization.guid)
        sig == import_key(serialization.signature)
        enc == import_key(serialization.encryption)
        exch == import_key(serialization.exchange)
        failed == IF guid.status # "ok" THEN guid
                  ELSE IF sig.status # "ok" THEN sig
                  ELSE IF enc.status # "ok" THEN enc
                  ELSE exch
    IN  IF failed.status \in {"TypeError", "KeyError"}
        THEN Raise("TypeError",
                   "serialization must be compatible with _serialize.")
        ELSE IF failed.status # "ok" THEN failed
        ELSE Ok(FirstParty1_load([signature |-> sig.value,
                                  encryption |-> enc.value,
                                  exchange |-> exch.value], guid.value))

----------------------------------------------------------------------------
(* Identities are derived from keys, from identity containers and from     *)
(* serializations                                                          *)

\* public key bundles: each key the public half of some identity's key
KeyBundles ==
    {[signature |-> publickey(party[a].keys.signature),
      encryption |-> publickey(party[b].keys.encryption),
      exchange |-> get_public(party[c].keys.exchange)] :
        a \in Ids, b \in Ids, c \in Ids}

\* serializations written by hand: the guid bytes and the exported keys of
\* an identity, or keys that are not exported keys
Serializations ==
    {[guid |-> [raw |-> party[a].guid],
      signature |-> IF good THEN exportKey(party[a].keys.signature)
                    ELSE [junk |-> TRUE],
      encryption |-> exportKey(party[a].keys.encryption),
      exchange |-> exportKey(party[a].keys.exchange)] :
        a \in Ids, good \in BOOLEAN}

\* the effect of a constructor call with outcome r
Constructed(c, r) ==
    /\ result.op \notin {"from_keys", "from_identity", "from_packed",
                         "_serialize", "_from_serialized"}
    /\ result' = [c EXCEPT !.out = r]
    /\ UNCHANGED <<party, obj, packed, call, sealed, tampered>>

FromKeys(keys, address_algo) ==
    /\ call = NoCall
    /\ Constructed([op |-> "from_keys", out |-> NoAttr],
                   Ok(from_keys(keys, address_algo)))

\* a suite-0 identity publishes its packed GIDC
PublishIdentity0(address_algo) ==
    Published([op |-> "identity0"],
              FirstParty0_second_party(address_algo).packed)

UnpackIdentity ==
    /\ packed # NoBytes
    /\ obj = NoObj
    /\ result = NoResult
    /\ unpack_identity(packed).status = "ok"
    /\ obj' = unpack_identity(packed).value
    /\ UNCHANGED <<party, packed, call, sealed, tampered, result>>

FromIdentity ==
    /\ obj # NoObj
    /\ obj.kind = "GIDC"
    /\ Constructed([op |-> "from_identity", out |-> NoAttr],
                   Ok(from_identity(obj)))

FromPacked ==
    /\ packed # NoBytes
    /\ Constructed([op |-> "from_packed", out |-> NoAttr],
                   from_packed(packed))

Serialize(a) ==
    /\ call = NoCall
    /\ Constructed([op |-> "_serialize", by |-> a, out |-> NoAttr],
                   _serialize(party[a]))

FromSerialized(serialization) ==
    /\ call = NoCall
    /\ Constructed([op |-> "_from_serialized", arg |-> serialization,
                    out |-> NoAttr],
                   _from_serialized(serialization))

IdentityNext ==
    \/ \E keys \in KeyBundles, algo \in ADDRESS_ALGOS : FromKeys(keys, algo)
    \/ \E a \in Ids : PublishIdentity(a)
    \/ \E algo \in ADDRESS_ALGOS : PublishIdentity0(algo)
    \/ \E p \in {q \in CraftedObjects : "GIDC" \notin q.parses} :
          CraftObject(p)
    \/ UnpackIdentity
    \/ FromIdentity
    \/ FromPacked
    \/ \E a \in Ids : Serialize(a)
    \/ \E s \in Serializations : FromSerialized(s)

IdentitySpec == Init /\ [][IdentityNext]_vars

\* address(pack(GIDC(public halves of the key bundle, cipher = suite))),
\* under the address algorithm of the identity's guid, for the packed
\* public halves given
IdentityGuid(id, public_bytes) ==
    pack(NewObject("GIDC", NoAttr, public_bytes), id.ciphersuite,
         id.guid.algo).guid

\* C18 (as claimed): every generated FirstParty, and every SecondParty made
\* by from_keys, from_identity or from_packed, has for guid the address of
\* the packed GIDC of its public keys with its own suite as cipher.  (The
\* keys from_keys holds are key objects, packed by _pack_keys; the keys
\* from_identity holds are the packed keys of the GIDC.)
C18_GuidOfIdentity ==
    /\ \A a \in Ids :
          /\ party[a].second_party.guid = party[a].guid
          /\ party[a].guid =
                 IdentityGuid(party[a],
                              _pack_keys(party[a].second_party.keys))
    /\ (/\ result.op = "from_keys"
        /\ result.out.status = "ok")
       => result.out.value.guid =
              IdentityGuid(result.out.value,
                           _pack_keys(result.out.value.keys))
    /\ (/\ result.op \in {"from_identity", "from_packed"}
        /\ result.out.status = "ok")
       => result.out.value.guid =
              IdentityGuid(result.out.value, result.out.value.keys)

\* C19 (as claimed): identity round-trip.  Serializing an identity succeeds,
\* and the identity loaded from the serialization has the same guid and a
\* second party to verify against.
C19_IdentityRoundTrip ==
    result.op = "_serialize"
    => /\ result.out.status = "ok"
       /\ _from_serialized(result.out.value).status = "ok"
       /\ GuidEq(_from_serialized(result.out.value).value.guid,
                 party[result.by].guid)
       /\ _from_serialized(result.out.value).value.second_party # NoAttr

----------------------------------------------------------------------------
(* Shared secrets and Guids *)

\* C21: shared-secret symmetry.  Any two identities derive the same key from
\* each other's SecondParty, whichever of them derives it, and the HKDF salt
\* is the same in both directions.
C21_SharedSymmetry ==
    \A a \in Ids, b \in Ids :
        LET ab == _derive_shared(party[a], party[b].second_party)
            ba == _derive_shared(party[b], party[a].second_party)
        IN  /\ ab = ba
            /\ ab.salt = ba.salt
            /\ ab.salt = XorBytes(GuidAddress(party[a].guid),
                                  GuidAddress(party[b].guid))

\* the recipient has verified, under the key it derived, the MAC the sender
\* made under the key the sender derived, the two having different addresses
C21_Witness ==
    /\ result.op = "receive_request"
    /\ call.op = "make_request"
    /\ ~tampered
    /\ result.by = call.to
    /\ result.sp = call.by
    /\ call.by # call.to
    /\ GuidAddress(party[call.by].guid) # GuidAddress(party[call.to].guid)
    /\ result.before.signature =
           _mac(_derive_shared(party[call.by], party[call.to].second_party),
                GuidAddress(result.before.guid))
    /\ result.out.status = "ok"

\* b'', the empty address
EmptyAddress == [bytes |-> <<>>]

\* Guid.__hash__: hash(algo byte + (address or b''))
Guid__hash__(g) ==
    LET address == IF GuidAddress(g) \in {NoAttr, EmptyAddress}
                   THEN EmptyAddress ELSE GuidAddress(g)
    IN  [hash |-> <<g.algo, address>>]

\* Guid.address setter: algo 0 ignores the assignment
Guid_set_address(g, address) ==
    IF g.algo = 0 THEN g ELSE [g EXCEPT !.addr = address]

\* addresses given to a Guid: None, b'', the sentinel, digests
GuidAddresses ==
    {NoAttr, EmptyAddress, _dummy_address}
    \cup {SHA512([content |-> n]) : n \in 1..2}

\* the addresses given so far to the Guid g ("g" or "h"), in order
Given(g) == IF call = NoCall THEN <<>> ELSE call[g]

GivenTo(g, address) ==
    call' = [op |-> "Guid",
             g |-> IF g = "g" THEN Append(Given("g"), address) ELSE Given("g"),
             h |-> IF g = "h" THEN Append(Given("h"), address) ELSE Given("h")]

\* g = Guid(algo, address), h = Guid(algo, address)
NewGuid(g, algo, address) ==
    /\ Given(g) = <<>>
    /\ GivenTo(g, address)
    /\ obj' = IF g = "g" THEN Guid(algo, address) ELSE obj
    /\ sealed' = IF g = "h" THEN Guid(algo, address) ELSE sealed
    /\ UNCHANGED <<party, packed, tampered, result>>

\* g.address = address, once per Guid
SetAddress(g, address) ==
    /\ Len(Given(g)) = 1
    /\ GivenTo(g, address)
    /\ obj' = IF g = "g" THEN Guid_set_address(obj, address) ELSE obj
    /\ sealed' = IF g = "h" THEN Guid_set_address(sealed, address) ELSE sealed
    /\ UNCHANGED <<party, packed, tampered, result>>

GuidNext ==
    \/ \E g \in {"g", "h"}, algo \in ADDRESS_ALGOS, address \in GuidAddresses :
          NewGuid(g, algo, address)
    \/ \E g \in {"g", "h"}, address \in GuidAddresses : SetAddress(g, address)

GuidSpec == SecretInit /\ [][GuidNext]_vars

\* the address a Guid stands for: the sentinel for algo 0, else the address
\* it was last given
LastGiven(g, given) ==
    IF g.algo = 0 THEN _dummy_address ELSE given[Len(given)]

\* C22: two Guids compare equal exactly when their algo is the same and the
\* address they stand for is the same; equal Guids have equal hashes; and a
\* Guid of algo 0 reports the sentinel address whatever it was given.
C22_GuidEquality ==
    (Given("g") # <<>> /\ Given("h") # <<>>)
    => /\ GuidEq(obj, sealed) <=>
              (/\ obj.algo = sealed.algo
               /\ LastGiven(obj, Given("g")) = LastGiven(sealed, Given("h")))
       /\ GuidEq(obj, sealed) => Guid__hash__(obj) = Guid__hash__(sealed)
       /\ GuidAddress(obj) = LastGiven(obj, Given("g"))
       /\ GuidAddress(sealed) = LastGiven(sealed, Given("h"))
       /\ obj.algo = 0 => GuidAddress(obj) = _dummy_address

C22_Witness ==
    /\ Len(Given("g")) = 2
    /\ Len(Given("h")) = 2
    /\ obj.algo = 0
    /\ sealed.algo = 0
    /\ Given("g")[1] # Given("h")[1]
    /\ Given("g")[2] # Given("h")[2]
    /\ Given("g")[2] # _dummy_address
    /\ GuidEq(obj, sealed)
    /\ Guid__hash__(obj) = Guid__hash__(sealed)

----------------------------------------------------------------------------
(* The make_* methods statement by statement *)

MakeOps ==
    {"make_container", "make_bind_static", "make_bind_dynamic", "make_debind",
     "make_request"}

\* the statements of make_*, with the signature computed before pack
make_steps_sign_first(op) ==
    CASE op = "make_container" ->
            <<"_typecheck_secret", "body", "_sign", "pack", "pack_signature",
              "return">>
      [] op \in {"make_bind_static", "make_bind_dynamic", "make_debind"} ->
            <<"body", "_sign", "pack", "pack_signature", "return">>
      [] op = "make_request" ->
            <<"_typecheck_2ndparty", "isinstance", "body", "_mac", "pack",
              "pack_signature", "return">>

\* the statements with an effect on the object, in the order of the source
\* they are executed in
make_steps(op) ==
    CASE op = "make_container" ->
            <<"_typecheck_secret", "body", "pack", "_sign", "pack_signature",
              "return">>
      [] op \in {"make_bind_static", "make_bind_dynamic", "make_debind"} ->
            <<"body", "pack", "_sign", "pack_signature", "return">>
      [] op = "make_request" ->
            <<"_typecheck_2ndparty", "isinstance", "body", "pack", "_mac",
              "pack_signature", "return">>

\* an object that is none of AsymHandshake, AsymAck, AsymNak
NotARequest == [kind |-> "object"]

\* the statement a running call is at
Stmt ==
    IF call = NoCall THEN "none"
    ELSE IF call.pc > Len(make_steps(call.op)) THEN "none"
    ELSE make_steps(call.op)[call.pc]

\* a call of make_* enters the method
Enter(op, a, args) ==
    /\ call = NoCall
    /\ call' = [op |-> op, by |-> a, args |-> args, pc |-> 1, trace |-> <<>>,
                signature |-> NoAttr]
    /\ obj' = NoObj
    /\ sealed' = NoObj
    /\ result' = NoResult
    /\ UNCHANGED <<party, packed, tampered>>

\* the statement at pc is done: the call moves to the next one
Done == call' = [call EXCEPT !.pc = @ + 1, !.trace = Append(@, Stmt)]

\* the statement at pc raises: the call is over
Raised(type, msg) ==
    /\ call' = [call EXCEPT !.pc = Len(make_steps(call.op)) + 1,
                            !.trace = Append(@, "raise")]
    /\ result' = [op |-> call.op, by |-> call.by, out |-> Raise(type, msg)]

\* the type checks at the head of make_container and make_request
CheckStep ==
    /\ Stmt \in {"_typecheck_secret", "_typecheck_2ndparty", "isinstance"}
    /\ LET passes ==
               CASE Stmt = "_typecheck_secret" ->
                        _typecheck_secret(party[call.by], call.args.secret)
                 [] Stmt = "_typecheck_2ndparty" ->
                        _typecheck_2ndparty(party[call.by], call.args.recipient)
                 [] Stmt = "isinstance" ->
                        call.args.request.kind \in InnerKinds
       IN  IF passes THEN Done /\ UNCHANGED result
           ELSE Raised("TypeError", Stmt)
    /\ UNCHANGED <<party, obj, packed, sealed, tampered>>

\* GEOC(author=...) and its payload, GOBS(...), GOBD(...), GDXX(...),
\* GARQ(recipient=..., payload=...)
BodyStep ==
    /\ Stmt = "body"
    /\ LET fp == party[call.by]
           args == call.args
       IN  obj' =
             CASE call.op = "make_container" ->
                      NewObject("GEOC", fp.guid,
                          [payload |-> _encrypt(args.secret, args.plaintext)])
               [] call.op = "make_bind_static" ->
                      NewObject("GOBS", fp.guid, [target |-> args.target])
               [] call.op = "make_bind_dynamic" ->
                      NewObject("GOBD", fp.guid,
                          [targets |-> args.target,
                           guid_dynamic |-> args.guid_dynamic,
                           history |-> args.history])
               [] call.op = "make_debind" ->
                      NewObject("GDXX", fp.guid, [debound |-> args.target])
               [] call.op = "make_request" ->
                      NewObject("GARQ", args.recipient.guid,
                          [asym |-> _encrypt_asym(args.recipient,
                                                  InnerPack(args.request))])
    /\ Done
    /\ UNCHANGED <<party, packed, sealed, tampered, result>>

\* <obj>.pack(cipher=self.ciphersuite, address_algo=self.address_algo)
PackStep ==
    /\ Stmt = "pack"
    /\ obj' = pack(obj, party[call.by].ciphersuite, party[call.by].address_algo)
    /\ Done
    /\ UNCHANGED <<party, packed, sealed, tampered, result>>

\* signature = self._sign(<obj>.guid.address), or the MAC of make_request;
\* the guid of an object that was not packed is undefined
SignStep ==
    /\ Stmt \in {"_sign", "_mac"}
    /\ IF obj.guid = NoAttr
       THEN Raised("AttributeError", "guid")
       ELSE /\ call' = [call EXCEPT
                   !.pc = @ + 1, !.trace = Append(@, Stmt),
                   !.signature =
                       IF Stmt = "_sign"
                       THEN _sign(party[call.by], GuidAddress(obj.guid))
                       ELSE _mac(_derive_shared(party[call.by],
                                                call.args.recipient),
                                 GuidAddress(obj.guid))]
            /\ UNCHANGED result
    /\ UNCHANGED <<party, obj, packed, sealed, tampered>>

\* <obj>.pack_signature(signature)
PackSignatureStep ==
    /\ Stmt = "pack_signature"
    /\ obj' = pack_signature(obj, call.signature)
    /\ Done
    /\ UNCHANGED <<party, packed, sealed, tampered, result>>

\* return <obj>
ReturnStep ==
    /\ Stmt = "return"
    /\ result' = [op |-> call.op, by |-> call.by, out |-> Ok(obj)]
    /\ sealed' = obj
    /\ packed' = PackedOf(obj)
    /\ Done
    /\ UNCHANGED <<party, obj, tampered>>

PipelineNext ==
    \/ \E a \in Ids, s \in AnySecrets, m \in Plaintexts :
          Enter("make_container", a, [secret |-> s, plaintext |-> m])
    \/ \E a \in Ids, t \in TargetGuids :
          Enter("make_bind_static", a, [target |-> t])
    \/ \E a \in Ids, d \in DynamicArgs : Enter("make_bind_dynamic", a, d)
    \/ \E a \in Ids, t \in TargetGuids :
          Enter("make_debind", a, [target |-> t])
    \/ \E a \in Ids, b \in Ids :
          \E q \in Requests(party[a]) \cup {NotARequest} :
              Enter("make_request", a,
                    [recipient |-> party[b].second_party, request |-> q])
    \/ \E a \in Ids :
          \E q \in Requests(party[a]) :
              Enter("make_request", a,
                    [recipient |-> FirstParty0_second_party(1),
                     request |-> q])
    \/ CheckStep
    \/ BodyStep
    \/ PackStep
    \/ SignStep
    \/ PackSignatureStep
    \/ ReturnStep

PipelineSpec == Init /\ [][PipelineNext]_vars

\* what the running call returns when it is taken as one step
MakeOutcome ==
    LET fp == party[call.by]
        args == call.args
    IN  CASE call.op = "make_container" ->
                 make_container(fp, args.secret, args.plaintext)
          [] call.op = "make_bind_static" -> make_bind_static(fp, args.target)
          [] call.op = "make_bind_dynamic" ->
                 make_bind_dynamic(fp, args.target, args.guid_dynamic,
                                   args.history)
          [] call.op = "make_debind" -> make_debind(fp, args.target)
          [] call.op = "make_request" ->
                 make_request(fp, args.recipient, args.request)

\* Unpacked, Packed or Sealed
ObjState(o) ==
    IF o.guid = NoAttr THEN "Unpacked"
    ELSE IF o.signature = NoAttr THEN "Packed" ELSE "Sealed"

\* the steps of the outbound pipeline among the statements executed
RECURSIVE PipelineOf(_)
PipelineOf(trace) ==
    IF trace = <<>> THEN <<>>
    ELSE LET s == Head(trace)
             rest == PipelineOf(Tail(trace))
         IN  IF s = "body" THEN <<"body">> \o rest
             ELSE IF s = "pack" THEN <<"pack">> \o rest
             ELSE IF s \in {"_sign", "_mac"} THEN <<"sign">> \o rest
             ELSE IF s = "pack_signature" THEN <<"pack_signature">> \o rest
             ELSE rest

PipelineOrder == <<"body", "pack", "sign", "pack_signature">>

\* C23: in every make_* call the pipeline steps executed so far are a prefix
\* of body, pack, sign/MAC, pack_signature (each once, in that order); no
\* statement fails for want of a guid, the signature is computed over the
\* address of the packed object, the object goes Unpacked, Packed, Sealed and
\* is sealed once, and a call that returns has run all four steps and returns
\* a Sealed object, the one the method yields as a whole.
C23_PipelineOrder ==
    call # NoCall =>
        LET done == PipelineOf(call.trace)
            n == Len(done)
        IN  /\ n <= 4
            /\ done = SubSeq(PipelineOrder, 1, n)
            /\ result.op = call.op => result.out.msg # "guid"
            /\ n >= 1 =>
                   ObjState(obj) = CASE n = 1 -> "Unpacked"
                                     [] n \in {2, 3} -> "Packed"
                                     [] n = 4 -> "Sealed"
            /\ n >= 3 =>
                   \/ call.signature = _sign(party[call.by],
                                             GuidAddress(obj.guid))
                   \/ /\ call.op = "make_request"
                      /\ call.signature =
                             _mac(_derive_shared(party[call.by],
                                                 call.args.recipient),
                                  GuidAddress(obj.guid))
            /\ (result.op = call.op /\ result.out.status = "ok") =>
                   /\ n = 4
                   /\ ObjState(result.out.value) = "Sealed"
                   /\ result.out = MakeOutcome
            /\ (result.op = call.op /\ result.out.status # "ok") =>
                   /\ n = 0
                   /\ result.out.status = MakeOutcome.status

C23_Witness ==
    /\ call # NoCall
    /\ call.op = "make_request"
    /\ result.op = "make_request"
    /\ result.out.status = "ok"
    /\ call.trace = make_steps("make_request")
    /\ ObjState(sealed) = "Sealed"

----------------------------------------------------------------------------
(* Delivery of a request: make_request, unpack_request, then receive_request *)
(* called again and again on the object unpack_request returned; sealed is   *)
(* the log of these calls                                                    *)

\* garq = a.make_request(b.second_party, request); its bytes are sent
SendRequest(a, b, request) ==
    LET r == make_request(party[a], party[b].second_party, request)
    IN  /\ call = NoCall
        /\ call' = [op |-> "make_request", by |-> a, to |-> b, maker |-> a,
                    request |-> request]
        /\ obj' = NoObj
        /\ sealed' = <<>>
        /\ packed' = PackedOf(r.value)
        /\ tampered' = FALSE
        /\ result' = [op |-> "make_request", by |-> a, out |-> r]
        /\ UNCHANGED party

\* garq = b.unpack_request(packed): a new object, nothing received from it
DeliverUnpack(b) ==
    /\ packed # NoBytes
    /\ LET r == unpack_request(party[b], packed)
       IN  /\ obj' = IF r.status = "ok" THEN r.value ELSE NoObj
           /\ result' = [op |-> "unpack_request", by |-> b, out |-> r]
    /\ sealed' = <<>>
    /\ UNCHANGED <<party, packed, call, tampered>>

\* the identity that unpacked the request calls receive_request(requestor,
\* request), where request is the unpacked garq or some other object
DeliverReceive(requestor, sp, arg) ==
    /\ obj # NoObj
    /\ result.op \in {"unpack_request", "receive_request"}
    /\ Len(sealed) < MaxReceives
    /\ LET b == result.by
           request == IF arg = "garq" THEN obj ELSE NotARequest
           r == receive_request(party[b], requestor, request)
       IN  /\ obj' = IF arg = "garq" THEN r.request ELSE obj
           /\ result' = [op |-> "receive_request", by |-> b, sp |-> sp,
                         secret |-> NoAttr, before |-> obj, out |-> r.out]
           /\ sealed' = Append(sealed, [sp |-> sp, arg |-> arg, before |-> obj,
                                        after |-> obj', out |-> r.out])
    /\ UNCHANGED <<party, packed, call, tampered>>

DeliveryNext ==
    \/ \E a \in Ids, b \in Ids :
          \E r \in Requests(party[a]) : SendRequest(a, b, r)
    \/ /\ result.op = "make_request"
       /\ Tamper
    \/ \E b \in Ids : DeliverUnpack(b)
    \/ \E x \in Ids : DeliverReceive(party[x].second_party, x, "garq")
    \/ DeliverReceive(FirstParty0_second_party(1), "SecondParty0", "garq")
    \/ \E x \in Ids : DeliverReceive(party[x].second_party, x, "object")

DeliveryInit ==
    /\ \E algos \in [Ids -> ADDRESS_ALGOS] :
           party = [x \in Ids |-> FirstParty1(x, algos[x])]
    /\ obj = NoObj
    /\ packed = NoBytes
    /\ call = NoCall
    /\ sealed = <<>>
    /\ tampered = FALSE
    /\ result = NoResult

DeliverySpec == DeliveryInit /\ [][DeliveryNext]_vars

\* the calls of the log that returned the payload
Delivered == {i \in 1..Len(sealed) : sealed[i].out.status = "ok"}

\* C24: of the receive_request calls made on one unpacked garq at most one
\* returns the inner payload, and every call after it fails, whoever the
\* requestor is.
C24_AtMostOnce ==
    /\ Cardinality(Delivered) <= 1
    /\ \A i \in Delivered :
           /\ sealed[i].out.value = sealed[i].before.plaintext
           /\ \A j \in (i + 1)..Len(sealed) :
                  sealed[j].out.status = "TypeError"

C24_Witness ==
    /\ Len(sealed) = 2
    /\ sealed[1].out.status = "ok"
    /\ sealed[2].arg = "garq"
    /\ sealed[2].sp = sealed[1].sp
    /\ sealed[2].out.status = "TypeError"

\* the garq as unpack_request returned it
Unpacked == unpack_request(party[result.by], packed).value

\* C25: a receive_request that fails leaves the garq as it was, with the
\* plaintext and the author unpack_request attached when nothing was
\* delivered before; and when the bytes arrived unaltered, the identity they
\* were made for, calling with the SecondParty of the sender after any
\* number of failed calls, gets the payload.
C25_FailureLeavesRequest ==
    \A j \in 1..Len(sealed) :
        LET failed == sealed[j].out.status # "ok"
            first == \A i \in 1..(j - 1) : sealed[i].out.status # "ok"
        IN  /\ failed => sealed[j].after = sealed[j].before
            /\ (failed /\ first) =>
                   /\ sealed[j].after = Unpacked
                   /\ sealed[j].after.plaintext = call.request
                   /\ sealed[j].after.author = call.request.author
            /\ (/\ first
                /\ ~tampered
                /\ result.by = call.to
                /\ sealed[j].arg = "garq"
                /\ sealed[j].sp = call.by) => ~failed

C25_Witness ==
    /\ Len(sealed) = 2
    /\ sealed[1].arg = "garq"
    /\ sealed[1].out.status = "SecurityError"
    /\ sealed[1].after = Unpacked
    /\ sealed[2].sp = call.by
    /\ sealed[2].out = Ok(call.request)

----------------------------------------------------------------------------
(* Roles: which SecondParty an object is verified with.  An object signed by *)
(* one identity and naming any identity in its role field is unpacked and    *)
(* handed to the receive_* methods of suite 1 and of suite 0                 *)

_dummy_signature == [dummy |-> "signature"]

_dummy_asym == [dummy |-> "asym"]

_dummy_mac == [dummy |-> "mac"]

\* the SecondParty of a generated FirstParty1, or the one of a FirstParty0
SecondPartyNames == Ids \cup {"SecondParty0"}

SecondPartyOf(name) ==
    IF name \in Ids THEN party[name].second_party
    ELSE FirstParty0_second_party(1)

\* _FirstPartyBase._typecheck_2ndparty with cls._2PID = SecondParty0
FirstParty0_typecheck_2ndparty(x) == x.cls = "SecondParty0"

\* FirstParty0._decrypt
FirstParty0_decrypt(secret, data) == [dummy |-> "decrypted"]

\* _FirstPartyBase.receive_container / receive_bind_static /
\* receive_bind_dynamic / receive_debind on a FirstParty0, whose _verify
\* checks the type of the SecondParty and returns True
FirstParty0_receive(op, public, secret, o) ==
    LET kind == CASE op = "receive_container" -> "GEOC"
                  [] op = "receive_bind_static" -> "GOBS"
                  [] op = "receive_bind_dynamic" -> "GOBD"
                  [] op = "receive_debind" -> "GDXX"
        msg == CASE op = "receive_container" ->
                        "Container must be an unpacked GEOC"
                 [] op = "receive_bind_static" ->
                        "Binding must be an unpacked GOBS"
                 [] op = "receive_bind_dynamic" ->
                        "Binding must be an unpacked GOBD"
                 [] op = "receive_debind" ->
                        "Debinding must be an unpacked GDXX"
    IN  IF o.kind # kind
        THEN Raise("TypeError", msg)
        ELSE IF ~FirstParty0_typecheck_2ndparty(public)
        THEN Raise("TypeError",
                   "Object must be a SecondParty of compatible type")
        ELSE Ok(CASE op = "receive_container" ->
                         FirstParty0_decrypt(secret, o.data.payload)
                  [] op = "receive_bind_static" -> o.data.target
                  [] op = "receive_bind_dynamic" -> o.data.targets
                  [] op = "receive_debind" -> o.data.debound)

\* _FirstPartyBase.receive_request on a FirstParty0 (_verify_mac returns True)
FirstParty0_receive_request(requestor, request) ==
    IF ~FirstParty0_typecheck_2ndparty(requestor)
    THEN Raise("TypeError", "Object must be a SecondParty of compatible type")
    ELSE IF request.kind # "GARQ" \/ request.plaintext = NoAttr
    THEN Raise("TypeError", "Request must be an unpacked GARQ")
    ELSE Ok(request.plaintext)

\* _FirstPartyBase.make_request on a FirstParty0 using address_algo
FirstParty0_make_request(address_algo, recipient, request) ==
    IF ~FirstParty0_typecheck_2ndparty(recipient)
    THEN Raise("TypeError", "Object must be a SecondParty of compatible type")
    ELSE IF request.kind \notin InnerKinds
    THEN Raise("TypeError", "Request must be an AsymHandshake, AsymAck, or AsymNak")
    ELSE LET garq == NewObject("GARQ", recipient.guid, [asym |-> _dummy_asym])
         IN  Ok(pack_signature(pack(garq, 0, address_algo), _dummy_mac))

\* _ThirdPartyBase.verify_object for ThirdParty0
ThirdParty0_verify_object(second_party, o) ==
    IF o.kind \in SymKinds
    THEN IF ~FirstParty0_typecheck_2ndparty(second_party)
         THEN Raise("TypeError",
                    "Object must be a SecondParty of compatible type")
         ELSE Ok(TRUE)
    ELSE IF o.kind = "GARQ"
    THEN Raise("ValueError",
               "Asymmetric objects cannot be verified by third parties.")
    ELSE IF o.kind = "GIDC"
    THEN Raise("ValueError", "Identity containers are inherently un-verified.")
    ELSE Raise("TypeError", "Obj must be a Golix object: GIDC, GEOC, etc.")

\* the body of an object of the given kind
ForgedData(kind) ==
    LET t == CHOOSE g \in TargetGuids : TRUE
    IN  CASE kind = "GEOC" -> [payload |-> _encrypt(Secret(1, 1, 0), <<1>>)]
          [] kind = "GOBS" -> [target |-> t]
          [] kind = "GOBD" -> [targets |-> <<t>>, guid_dynamic |-> NoAttr,
                               history |-> <<>>]
          [] kind = "GDXX" -> [debound |-> t]

\* the object a receive_* method is handed: of any kind, naming the identity
\* x in its role field, packed with address algorithm 1 and signed by a
Forge(a, x, kind) ==
    LET o == pack(NewObject(kind, party[x].guid, ForgedData(kind)), 1, 1)
    IN  /\ call = NoCall
        /\ call' = [op |-> "sign", by |-> a, who |-> x]
        /\ obj' = pack_signature(o, _sign(party[a], GuidAddress(o.guid)))
        /\ UNCHANGED <<party, packed, sealed, tampered, result>>

\* the request receive_request is handed: unpacked by b from the bytes of
\* a.make_request(b.second_party, a.make_ack(...))
ForgeRequest(a, b) ==
    LET t == CHOOSE g \in TargetGuids : TRUE
        garq == make_request(party[a], party[b].second_party,
                             make_ack(party[a], t, 0)).value
    IN  /\ call = NoCall
        /\ call' = [op |-> "make_request", by |-> a, to |-> b]
        /\ obj' = unpack_request(party[b], PackedOf(garq)).value
        /\ UNCHANGED <<party, packed, sealed, tampered, result>>

RoleOps == PureOps \cup {"receive_request", "make_request"}

Suite0 == {"FirstParty0", "ThirdParty0", "SecondParty0"}

\* the outcome of op called on a party of suite 1 with the SecondParty sp
Suite1Outcome(op, b, sp) ==
    LET t == CHOOSE g \in TargetGuids : TRUE
    IN  CASE op = "receive_container" ->
                 receive_container(party[b], sp, Secret(1, 1, 0), obj)
          [] op = "receive_bind_static" -> receive_bind_static(party[b], sp, obj)
          [] op = "receive_bind_dynamic" ->
                 receive_bind_dynamic(party[b], sp, obj)
          [] op = "receive_debind" -> receive_debind(party[b], sp, obj)
          [] op = "verify_object" -> verify_object(sp, obj)
          [] op = "receive_request" -> receive_request(party[b], sp, obj).out
          [] op = "make_request" ->
                 make_request(party[b], sp, make_ack(party[b], t, 0))

\* the outcome of op called on a party of suite 0 with the SecondParty sp
Suite0Outcome(op, sp) ==
    LET t == CHOOSE g \in TargetGuids : TRUE
    IN  CASE op \in PureOps \ {"verify_object"} ->
                 FirstParty0_receive(op, sp, Secret(0, 1, 0), obj)
          [] op = "verify_object" -> ThirdParty0_verify_object(sp, obj)
          [] op = "receive_request" -> FirstParty0_receive_request(sp, obj)
          [] op = "make_request" ->
                 FirstParty0_make_request(1, sp,
                     [kind |-> "ack", author |-> FirstParty0_second_party(1).guid,
                      target |-> t, status |-> 0])

\* a FirstParty1 (or ThirdParty1 for verify_object) calls op
Suite1Call(op, b, sp) ==
    /\ call # NoCall
    /\ result' = [op |-> op,
                  by |-> IF op = "verify_object" THEN "ThirdParty1" ELSE b,
                  sp |-> sp, before |-> obj,
                  out |-> Suite1Outcome(op, b, SecondPartyOf(sp))]
    /\ UNCHANGED <<party, obj, packed, call, sealed, tampered>>

\* a FirstParty0 (or ThirdParty0 for verify_object) calls op
Suite0Call(op, sp) ==
    /\ call # NoCall
    /\ result' = [op |-> op,
                  by |-> IF op = "verify_object" THEN "ThirdParty0"
                         ELSE "FirstParty0",
                  sp |-> sp, before |-> obj,
                  out |-> Suite0Outcome(op, SecondPartyOf(sp))]
    /\ UNCHANGED <<party, obj, packed, call, sealed, tampered>>

RoleNext ==
    \/ \E a \in Ids, x \in Ids, kind \in SymKinds : Forge(a, x, kind)
    \/ \E a \in Ids, b \in Ids : ForgeRequest(a, b)
    \/ \E op \in RoleOps, b \in Ids, sp \in SecondPartyNames :
          Suite1Call(op, b, sp)
    \/ \E op \in RoleOps, sp \in SecondPartyNames : Suite0Call(op, sp)

RoleSpec == Init /\ [][RoleNext]_vars

\* C26: receive_container, receive_bind_static, receive_bind_dynamic,
\* receive_debind and verify_object of suite 1 succeed only if the role guid
\* of the object (author, binder, debinder) is the guid of the SecondParty
\* the signature was verified with.
C26_AuthorBinding ==
    (/\ result.op \in PureOps
     /\ result.by \notin Suite0
     /\ result.out.status = "ok")
    => GuidEq(result.before.who, SecondPartyOf(result.sp).guid)

\* the suite of a party or SecondParty named in a call
SuiteOf(name) == IF name \in Suite0 THEN 0 ELSE 1

\* the errors raised by the checks of the arguments that precede _verify,
\* _verify_mac, _derive_shared, _encrypt_asym and _decrypt
ArgumentErrors ==
    {Raise("TypeError", "Object must be a SecondParty of compatible type")}
    \cup {Raise("TypeError", "Container must be an unpacked GEOC"),
          Raise("TypeError", "Binding must be an unpacked GOBS"),
          Raise("TypeError", "Binding must be an unpacked GOBD"),
          Raise("TypeError", "Debinding must be an unpacked GDXX"),
          Raise("ValueError",
                "Asymmetric objects cannot be verified by third parties.")}

\* C27: make_request, the receive_* methods and verify_object called on a
\* party of one suite with a SecondParty of the other suite raise an error of
\* the argument checks: they never return and never reach the signature, MAC
\* or encryption; receive_request and make_request raise the type error of
\* the SecondParty itself.
C27_CrossSuite ==
    (/\ result.op \in RoleOps
     /\ SuiteOf(result.by) # SuiteOf(result.sp))
    => /\ result.out \in ArgumentErrors
       /\ result.op \in {"receive_request", "make_request"} =>
              result.out.msg = "Object must be a SecondParty of compatible type"

C27_Witness ==
    /\ result.op = "receive_container"
    /\ result.by \in Ids
    /\ result.sp = "SecondParty0"
    /\ result.before.kind = "GEOC"
    /\ result.out =
           Raise("TypeError", "Object must be a SecondParty of compatible type")

----------------------------------------------------------------------------

\* the identity container the guid of the SecondParty just constructed was
\* computed from
SourceGIDC ==
    CASE result.op = "from_keys" -> unpack(result.out.value.packed)
      [] result.op = "from_identity" -> obj
      [] result.op = "from_packed" -> unpack_identity(packed).value

\* C28 (as claimed): the ciphersuite of a SecondParty made by from_keys,
\* from_identity or from_packed is the cipher of the GIDC its guid was
\* computed from, the SecondParty holds the packed GIDC, and from_packed of
\* these bytes yields a SecondParty with the same guid, ciphersuite and keys.
C28_SecondPartyCipher ==
    (/\ result.op \in {"from_keys", "from_identity", "from_packed"}
     /\ result.out.status = "ok")
    => LET sp == result.out.value
       IN  /\ sp.guid = SourceGIDC.guid
           /\ sp.ciphersuite = SourceGIDC.cipher
           /\ sp.packed # NoAttr
           /\ from_packed(sp.packed).status = "ok"
           /\ from_packed(sp.packed).value.guid = sp.guid
           /\ from_packed(sp.packed).value.ciphersuite = sp.ciphersuite
           /\ from_packed(sp.packed).value.keys = sp.keys

\* C29 (as claimed): the address algorithm of every FirstParty is the
\* algorithm of its guid: after it is generated, when it is loaded from its
\* keys and guid as _from_serialized does, and after the round trip through
\* _serialize and _from_serialized, which succeeds and keeps address_algo.
C29_AddressAlgo ==
    /\ \A a \in Ids :
          /\ party[a].address_algo = party[a].guid.algo
          /\ FirstParty1_load(party[a].keys, party[a].guid).address_algo
                 = party[a].guid.algo
    /\ result.op = "_serialize"
       => /\ result.out.status = "ok"
          /\ _from_serialized(result.out.value).status = "ok"
          /\ _from_serialized(result.out.value).value.address_algo
                 = party[result.by].address_algo

----------------------------------------------------------------------------
(* Two threads serialize and parse Secrets through the one _secret_parser;  *)
(* obj holds its 'key' and 'seed' fields, call the position of each thread  *)

Threads == {"t1", "t2"}

Idle == [pc |-> "idle"]

ParserInit ==
    /\ party = [x \in Ids |-> FirstParty1(x, 1)]
    /\ obj = [key |-> NoAttr, seed |-> NoAttr]
    /\ packed = NoBytes
    /\ call = [t \in Threads |-> Idle]
    /\ sealed = NoObj
    /\ tampered = FALSE
    /\ result = NoResult

\* _secret_cipher_update(cipher): the parser's key and seed fields become
\* Blobs of the lengths of the cipher
_secret_cipher_update(cipher) ==
    [key |-> cipher_length_lookup[cipher].key,
     seed |-> cipher_length_lookup[cipher].seed]

\* thread t calls bytes(s) or Secret.from_bytes(b) for a Secret of the
\* cipher given; magic and version are packed or parsed
ParserCall(t, op, cipher) ==
    /\ call[t] = Idle
    /\ call' = [call EXCEPT ![t] = [pc |-> "cipher", op |-> op,
                                    cipher |-> cipher, key |-> NoAttr,
                                    seed |-> NoAttr]]
    /\ UNCHANGED <<party, obj, packed, sealed, tampered, result>>

\* the cipher field: packed after the prepack callback, or parsed and
\* followed by the postunpack callback
CipherField(t) ==
    /\ call[t].pc = "cipher"
    /\ obj' = _secret_cipher_update(call[t].cipher)
    /\ call' = [call EXCEPT ![t].pc = "key"]
    /\ UNCHANGED <<party, packed, sealed, tampered, result>>

\* the key field, with the Blob the parser holds now
KeyField(t) ==
    /\ call[t].pc = "key"
    /\ call' = [call EXCEPT ![t].pc = "seed", ![t].key = obj.key]
    /\ UNCHANGED <<party, obj, packed, sealed, tampered, result>>

\* the seed field, with the Blob the parser holds now; the call is over
SeedField(t) ==
    /\ call[t].pc = "seed"
    /\ call' = [call EXCEPT ![t] = Idle]
    /\ result' = [op |-> call[t].op, by |-> t, cipher |-> call[t].cipher,
                  key |-> call[t].key, seed |-> obj.seed,
                  other |-> call[CHOOSE u \in Threads : u # t]]
    /\ UNCHANGED <<party, obj, packed, sealed, tampered>>

ParserNext ==
    \/ \E t \in Threads, op \in {"__bytes__", "from_bytes"},
          cipher \in DOMAIN cipher_length_lookup : ParserCall(t, op, cipher)
    \/ \E t \in Threads : CipherField(t)
    \/ \E t \in Threads : KeyField(t)
    \/ \E t \in Threads : SeedField(t)

ParserSpec == ParserInit /\ [][ParserNext]_vars

\* C30 (as claimed): every bytes(s) and Secret.from_bytes(b) packs or parses
\* its key and its seed with the lengths of its own cipher, whatever the
\* other thread does in between.
C30_ThreadSafeSecrets ==
    /\ \A t \in Threads :
          call[t].pc = "seed" =>
              call[t].key = cipher_length_lookup[call[t].cipher].key
    /\ result.op \in {"__bytes__", "from_bytes"} =>
          /\ result.key = cipher_length_lookup[result.cipher].key
          /\ result.seed = cipher_length_lookup[result.cipher].seed

====
